---- MODULE Spec2Model ----
(***************************************************************************)
(* Model of the two client variants of d3-node-client:                     *)
(*   D3Client    (src/src/client.ts)                                       *)
(*   Dragdropdo  (src/src/types.ts, lines 156-898)                         *)
(* One behaviour follows one public call (the constructor, uploadFile,     *)
(* checkSupportedOperation, createOperation, getStatus or pollStatus) from *)
(* its invocation to the settling of the promise it returns.  Every await  *)
(* of the source is a point where the call is suspended; an action is the  *)
(* code that runs between two such points.                                 *)
(*                                                                         *)
(* Sizes are in bytes.  Time is in ticks of an arbitrary length (the code  *)
(* only adds and compares times, so the unit is free).                     *)
(***************************************************************************)
EXTENDS Integers, Sequences, FiniteSets, TLC

VARIABLES
    call,           \* the public method this behaviour follows
    variant,        \* which of the two client classes is used
    apiKey,         \* config.apiKey: TRUE iff truthy
    etagStyle,      \* how the storage service writes the ETag header
    wire,           \* the HTTP requests sent: where to, and the headers they carry
    \* ---- uploadFile: arguments
    fileName,       \* options.fileName: TRUE iff truthy (non-empty)
    file,           \* options.file: "path", "missing" (path, no such file), "buffer", "stream"
    fileSize,       \* stats.size or Buffer length
    parts,          \* options.parts: [given |-> BOOLEAN, value |-> Int]
    onProgress,     \* options.onProgress: "absent", "returns", "throws"
    \* ---- uploadFile: locals and promise
    upPc,           \* "start", "negotiating", "putting", "completing", "resolved", "rejected"
    actualParts,    \* the parts value of the negotiate request
    negotiated,     \* "none", "ok" (a response arrived), "failed"
    presignedUrls,  \* presignedUrls.length of the negotiate response
    i,              \* loop index of the part loop
    bytesUploaded,
    prevReport,     \* the onProgress report before the last one
    lastReport,     \* the last onProgress report
    reportCount,    \* number of onProgress invocations
    negotiateCalls, \* POST initiate requests issued
    putCalls,       \* PUT requests issued
    completeCalls,  \* POST complete-upload requests issued
    upError,        \* the error uploadFile rejected with
    fileKey,        \* fileKey of the negotiate response
    resultKey,      \* fileKey of the value uploadFile resolved with
    putLog,         \* the PUT requests issued: part number, location, bytes sent
    putsReturned,   \* PUT requests that returned a response
    uploadParts,    \* Dragdropdo: the list of { etag, partNumber }
    completeBody,   \* Dragdropdo: the parts list of the completion request
    putFailed,      \* number of the part whose PUT failed (0: none)
    missingEtagAt,  \* number of the part whose response had no ETag (0: none)
    upRaised,       \* the error thrown inside the try block of uploadFile
    upRaisedBy,     \* what threw it: "negotiate", "read", "put", "callback", "complete"
    completed,      \* the completion request: "none", "ok", "failed"
    uploadIdSeen,   \* Dragdropdo: uploadId of the negotiate response, "given" or "missing"
    \* ---- pollStatus: arguments
    mainTaskId,     \* options.mainTaskId: TRUE iff truthy
    interval,
    timeout,
    onUpdate,       \* options.onUpdate: "absent", "returns", "throws"
    \* ---- pollStatus: locals and promise
    pollPc,         \* "start", "fetching", "waiting", "Resolved", "TimedOut", "Errored"
    now,            \* Date.now() - startTime
    checkedAt,      \* Date.now() - startTime as read by the last timeout check
    stalls,         \* timers in a row that fired within the tick they were set in
    fetches,        \* getStatus calls made by poll
    statusRequests, \* HTTP GET status requests issued
    nonTerminal,    \* fetched statuses that were neither completed nor failed
    lastFetched,    \* the last status getStatus returned
    updates,        \* onUpdate invocations
    lastUpdateArg,  \* argument of the last onUpdate invocation
    raised,         \* the error the last failed getStatus threw
    pollResult,     \* value the promise resolved with
    pollError,      \* error the promise rejected with
    \* ---- constructor and calls of one request
    ext,            \* options.ext: TRUE iff truthy
    action,         \* options.action: TRUE iff truthy
    fileKeys,       \* options.fileKeys: [given |-> BOOLEAN, length |-> Nat]
    method,         \* the public method that creates the operation ("none": another call)
    methodArgs,     \* the other arguments of that method
    opPc,           \* "start", "requesting", "resolved", "rejected"
    opRequests,     \* HTTP requests the call issued
    opRaised,       \* the error thrown inside the try block of the call
    opError,        \* the error the call rejected (or threw) with
    opBody,         \* the body of the create-operation request
    opResponse,     \* mainTaskId of the response to it
    opResult,       \* mainTaskId of the value the call resolved with
    statusData,     \* getStatus: what the status response says
    statusNames,    \* how it spells its field names: <<top level, file entries>>
    statusResult,   \* the value getStatus resolved with
    \* ---- D3Client.uploadFile of the same bytes, given twice
    runP,           \* the call given the path of a file holding the bytes
    runB,           \* the call given a Buffer holding the bytes
    \* ---- several calls on one client
    client,         \* the fields of the client object
    clock,          \* Date.now()
    calls           \* the calls made on the client, each with its locals

cfgVars  == <<call, variant, apiKey, etagStyle>>
upArgs   == <<fileName, file, fileSize, parts, onProgress>>
upTrace  == <<fileKey, resultKey, putLog, putsReturned, uploadParts,
              completeBody, putFailed, missingEtagAt, upRaised, upRaisedBy,
              completed, uploadIdSeen>>
upState  == <<upPc, actualParts, negotiated, presignedUrls, i, bytesUploaded, prevReport,
              lastReport, reportCount, negotiateCalls, putCalls, completeCalls,
              upError, upTrace>>
pollArgs == <<mainTaskId, interval, timeout, onUpdate>>
pollState == <<pollPc, now, checkedAt, stalls, fetches, statusRequests, nonTerminal,
               lastFetched, updates, lastUpdateArg, raised, pollResult, pollError>>
opArgs == <<ext, action, fileKeys, method, methodArgs>>
statusVars == <<statusData, statusNames, statusResult>>
opVars == <<opArgs, opPc, opRequests, opRaised, opError, opBody, opResponse,
            opResult, statusVars>>
pairVars == <<runP, runB>>
concVars == <<client, clock, calls>>
vars == <<wire, concVars, pairVars, cfgVars, upArgs, upState, pollArgs, pollState, opVars>>

----------------------------------------------------------------------------
(* Bounds of the model                                                     *)

MaxSmallSize == 7       \* source sizes 0..MaxSmallSize bytes are enumerated
MaxChunks == 2          \* and sizes around k * chunkSize for k in 1..MaxChunks
MaxReqParts == 5        \* requested part counts -1..MaxReqParts (and around the limit)
MaxTimeout == 5         \* timeout in -1..MaxTimeout ticks
MaxInterval == 2        \* interval in 1..MaxInterval ticks
MaxLatency == 2         \* a status request takes 0..MaxLatency ticks
MaxTimerLag == 1        \* a timer fires 0..MaxTimerLag ticks late
MaxStalls == 2          \* at most MaxStalls timers in a row fire within one tick
MaxFileKeys == 2        \* createOperation is given 0..MaxFileKeys file keys
MaxTokenLen == 3        \* an integrity token has 1..MaxTokenLen characters
MaxFiles == 1           \* a status response tells of 0..MaxFiles files
MaxCalls == 2           \* calls made on one client side by side
MaxClock == 3           \* the clock is followed for MaxClock ticks
MaxCallTimeout == 1     \* their timeouts are in 0..MaxCallTimeout ticks

----------------------------------------------------------------------------
(* Program constants                                                       *)

chunkSize == 5 * 1024 * 1024
MaxPartCount == 100

NoCause == <<"none", "none">>
None == [kind |-> "none", msg |-> "none", part |-> 0, cause |-> NoCause]
NoReport == [currentPart |-> 0, totalParts |-> 0, bytesUploaded |-> 0,
             totalBytes |-> 0, percentage |-> [nan |-> FALSE, value |-> 0]]
NoStatus == [operationStatus |-> "none", files |-> "none", serial |-> 0]

----------------------------------------------------------------------------
(* Arithmetic of the source                                                *)

Min(a, b) == IF a < b THEN a ELSE b
Max(a, b) == IF a > b THEN a ELSE b

\* Math.ceil(a / b) for a >= 0, b > 0
CeilDiv(a, b) == (a + b - 1) \div b

\* One doubling step of p = [q, r] where k * b = q * s + r and 0 <= r < s.
Dbl(p, s) ==
    IF 2 * p.r >= s THEN [q |-> 2 * p.q + 1, r |-> 2 * p.r - s]
                    ELSE [q |-> 2 * p.q, r |-> 2 * p.r]

\* p + b0, for two such pairs over the same s
Add(p, b0, s) ==
    IF p.r + b0.r >= s THEN [q |-> p.q + b0.q + 1, r |-> p.r + b0.r - s]
                       ELSE [q |-> p.q + b0.q, r |-> p.r + b0.r]

\* Math.round((b / s) * 100): the quotient 100 * b / s rounded half up.  For
\* s = 0 the source divides 0 by 0 and Math.round gives NaN.  The product is
\* built by doubling (100 = 1100100 in binary) so that no intermediate value
\* leaves the 32-bit range for the sizes of the model.
Percentage(b, s) ==
    IF s = 0 THEN [nan |-> TRUE, value |-> 0]
    ELSE LET b0  == [q |-> b \div s, r |-> b % s]
             k3  == Add(Dbl(b0, s), b0, s)
             k25 == Add(Dbl(Dbl(Dbl(k3, s), s), s), b0, s)
             k100 == Dbl(Dbl(k25, s), s)
         IN  [nan |-> FALSE,
              value |-> k100.q + (IF 2 * k100.r >= s THEN 1 ELSE 0)]

----------------------------------------------------------------------------
(* uploadFile: the upload plan                                             *)

\* const calculatedParts = parts || Math.ceil(fileSize / chunkSize);
\* (|| takes the right operand when parts is undefined or 0)
calculatedParts(p, size) ==
    IF p.given /\ p.value # 0 THEN p.value ELSE CeilDiv(size, chunkSize)

\* The upper limit alone, without the lower one.
MutActualParts(p, size) == Min(calculatedParts(p, size), MaxPartCount)

\* const actualParts = Math.max(1, Math.min(calculatedParts, 100));
ActualParts(p, size) == Max(1, Min(calculatedParts(p, size), MaxPartCount))

\* const chunkSizePerPart = Math.ceil(fileSize / actualParts);
chunkSizePerPart(size, n) == CeilDiv(size, n)

\* const start = i * chunkSizePerPart;
PartStart(k, size, n) == k * chunkSizePerPart(size, n)

\* const end = Math.min(start + chunkSizePerPart, fileSize);
PartEnd(k, size, n) ==
    Min(PartStart(k, size, n) + chunkSizePerPart(size, n), size)

\* const partSize = end - start;
partSize(k, size, n) == PartEnd(k, size, n) - PartStart(k, size, n)

----------------------------------------------------------------------------
(* Errors.  kind is the class of the error object, msg its message, part   *)
(* the part number the message names (0: none), cause the class and the    *)
(* message of the error attached as details (NoCause: nothing attached).   *)

Err(kind, msg, part, cause) ==
    [kind |-> kind, msg |-> msg, part |-> part, cause |-> cause]

\* An error as it appears when attached to another one.
Cause(e) == <<e.kind, e.msg>>

\* error instanceof D3ClientError || error instanceof D3APIError
\* (every error class of errors.ts derives from the base class)
Typed(e) == e.kind \in {"ClientError", "APIError", "ValidationError",
                        "UploadError", "TimeoutError"}

TransportFailures == {"http_error", "no_response", "setup_error"}

\* The response interceptor of axiosInstance: what a failed request throws.
Interceptor(outcome) ==
    CASE outcome = "http_error"  -> Err("APIError", "API request failed", 0, NoCause)
      [] outcome = "no_response" -> Err("ClientError", "Network error", 0, NoCause)
      [] outcome = "setup_error" -> Err("ClientError", "Request error", 0, NoCause)

\* What a failed axios.put throws: the global axios has no interceptor.
AxiosError == Err("AxiosError", "Request failed", 0, NoCause)

\* What a throwing caller-supplied callback throws.
CallbackError == Err("Error", "callback", 0, NoCause)

\* What fs.readFileSync throws when the file cannot be read.
FsError == Err("Error", "ENOENT", 0, NoCause)

\* What reading a field of a response without a body throws.
TypeError == Err("TypeError", "Cannot read properties", 0, NoCause)

\* The ways a call through axiosInstance fails: the request fails, or the
\* response (response.data) is null and reading response.data.data throws.
ServiceFailures == TransportFailures \cup {"malformed"}

Raised(outcome) ==
    IF outcome = "malformed" THEN TypeError ELSE Interceptor(outcome)

----------------------------------------------------------------------------
(* The HTTP requests.  A request is sent through an axios object: the      *)
(* instance the constructor made, with the base URL and the default        *)
(* headers, or axios itself, which has neither.                            *)

\* The header that carries the API key.
Credential == IF variant = "D3Client" THEN "X-API-Key" ELSE "Authorization"

\* axios.create({ baseURL, timeout, headers: { "Content-Type", <key> } })
axiosInstance == [baseURL |-> "baseURL", headers |-> {"Content-Type", Credential}]

\* the axios import
axios == [baseURL |-> "none", headers |-> {}]

\* A path under /v1 is relative; a presigned location is an absolute URL.
Relative(path) == [absolute |-> FALSE, host |-> "none", path |-> path]
Location == [absolute |-> TRUE, host |-> "location", path |-> "part"]

\* The request axios sends for a call through the object via: a relative
\* URL is joined to the base URL, and the headers of the call are added to
\* the default ones.
Request(via, url, headers) ==
    [to |-> IF url.absolute THEN url.host ELSE via.baseURL,
     path |-> url.path,
     headers |-> via.headers \cup headers]

\* The parts sent through the instance of the client.
MutPutVia == axiosInstance

\* await axios.put(presignedUrls[i], chunk, { headers: { "Content-Type" } })
PutVia == axios

Put == Request(PutVia, Location, {"Content-Type"})

\* The path of the negotiate request.
NegotiatePath == IF variant = "D3Client" THEN "upload" ELSE "initiate-upload"

\* this.axiosInstance.post(path, ...) and this.axiosInstance.get(path)
ApiRequest(path) == Request(axiosInstance, Relative(path), {})

----------------------------------------------------------------------------
(* uploadFile                                                              *)

\* A catch that wraps every error, typed ones included.
MutUploadCatch(e) == Err("UploadError", "Upload failed", 0, Cause(e))

\* catch (error) of uploadFile: typed errors pass, the rest is wrapped.
UploadCatch(e) ==
    IF Typed(e) THEN e ELSE Err("UploadError", "Upload failed", 0, Cause(e))

\* A check that lets a longer list pass (the list would be truncated).
MutMismatch(n, requested) == n < requested

\* if (presignedUrls.length !== actualParts)
Mismatch(n, requested) == n # requested

\* A check of the name only, the file being looked at after the negotiation.
MutSourceAccepted == fileName

\* The source checks the arguments are usable: fileName, then the file.
SourceAccepted ==
    /\ fileName
    /\ IF variant = "D3Client" THEN file \in {"path", "buffer"}
                               ELSE file = "path"

ValidationMessage ==
    CASE ~fileName -> "fileName is required"
      [] file = "missing" -> "File not found"
      [] variant = "D3Client" -> "Stream uploads are not supported"
      [] OTHER -> "file must be a file path string"

\* Preparing fileBuffer after the negotiation: what it throws (None: nothing).
\* D3Client tests the kind of the file a second time; both variants read a
\* path with fs.readFileSync, which throws an untyped error.
ReadSource ==
    CASE file = "path" -> None
      [] file = "missing" -> FsError
      [] variant = "D3Client" /\ file = "buffer" -> None
      [] variant = "D3Client" ->
            Err("ValidationError", "Stream uploads are not supported", 0, NoCause)
      [] OTHER -> FsError

\* An error that is recorded while the call carries on.
MutUploadReject(e) ==
    /\ upError' = e
    /\ UNCHANGED upPc

UploadReject(e) ==
    /\ upPc' = "rejected"
    /\ upError' = e

\* uploadFile up to its first await: validation, the plan, the negotiate POST.
UploadStart ==
    /\ call = "uploadFile"
    /\ upPc = "start"
    /\ IF ~SourceAccepted
       THEN /\ UploadReject(Err("ValidationError", ValidationMessage, 0, NoCause))
            /\ UNCHANGED <<actualParts, negotiateCalls, wire>>
       ELSE /\ actualParts' = ActualParts(parts, fileSize)
            /\ negotiateCalls' = negotiateCalls + 1
            /\ wire' = wire \cup {ApiRequest(NegotiatePath)}
            /\ upPc' = "negotiating"
            /\ UNCHANGED upError
    /\ UNCHANGED <<negotiated, presignedUrls, i, bytesUploaded, prevReport,
                   lastReport, reportCount, putCalls, completeCalls>>
    /\ UNCHANGED upTrace
    /\ UNCHANGED <<concVars, pairVars, cfgVars, upArgs, pollArgs, pollState, opVars>>

\* The negotiate request fails, or its response has no body to read the
\* fields from: the interceptor's error reaches the caller as it is, the
\* TypeError wrapped.
NegotiateFails ==
    /\ upPc = "negotiating"
    /\ \E outcome \in ServiceFailures :
          /\ upRaised' = Raised(outcome)
          /\ UploadReject(UploadCatch(Raised(outcome)))
    /\ upRaisedBy' = "negotiate"
    /\ negotiated' = "failed"
    /\ UNCHANGED wire
    /\ UNCHANGED <<actualParts, presignedUrls, i, bytesUploaded, prevReport,
                   lastReport, reportCount, negotiateCalls, putCalls,
                   completeCalls>>
    /\ UNCHANGED <<fileKey, resultKey, putLog, putsReturned, uploadParts,
                   completeBody, putFailed, missingEtagAt, completed, uploadIdSeen>>
    /\ UNCHANGED <<concVars, pairVars, cfgVars, upArgs, pollArgs, pollState, opVars>>

\* The locations a negotiate response may carry for a request of n parts.
UrlCounts(n) == {n - 1, n, n + 1}

\* The file keys a negotiate response may carry.
FileKeys == {"file-key-1", "file-key-2"}

\* Every request goes to the first location.
MutUrlFor(k) == 1

\* presignedUrls[i]: the position, counted from 1, of the location part
\* i + 1 is sent to.
UrlFor(k) == k + 1

\* A slice that takes the two positions as they are.
MutSliceRange(start, end, len) == [from |-> start, upto |-> end]

\* fileBuffer.slice(start, end) (subarray in Dragdropdo): the range of the
\* bytes a chunk holds; both ends are clamped to the length, and the chunk
\* is empty when end <= start.
SliceRange(start, end, len) ==
    LET a == Min(start, len)
        b == Min(end, len)
    IN  [from |-> a, upto |-> Max(a, b)]

\* const chunk = fileBuffer.slice(start, end) in iteration i = k; the buffer
\* holds the fileSize bytes of the source.
Chunk(k) ==
    SliceRange(PartStart(k, fileSize, actualParts),
               PartEnd(k, fileSize, actualParts), fileSize)

\* Two parts are sent at once.
MutIssuePut(log, k) ==
    log \o <<[part |-> k + 1, url |-> UrlFor(k), chunk |-> Chunk(k)],
             [part |-> k + 2, url |-> UrlFor(k + 1), chunk |-> Chunk(k + 1)]>>

\* await axios.put(presignedUrls[i], chunk, ...) in iteration i = k
IssuePut(log, k) ==
    Append(log, [part |-> k + 1, url |-> UrlFor(k), chunk |-> Chunk(k)])

\* The two checks in the other order.
MutResponseError(n, requested, uploadId) ==
    IF variant = "Dragdropdo" /\ ~uploadId THEN "Upload ID not received"
    ELSE IF Mismatch(n, requested) THEN "Mismatch"
    ELSE "ok"

\* The checks on the negotiate response, in the order of the source: the
\* number of locations, then (Dragdropdo) the upload id.  The message of
\* the D3UploadError thrown, "ok" when the response passes.
ResponseError(n, requested, uploadId) ==
    IF Mismatch(n, requested) THEN "Mismatch"
    ELSE IF variant = "Dragdropdo" /\ ~uploadId THEN "Upload ID not received"
    ELSE "ok"

\* The negotiate response arrives: the checks on it, and, when they pass,
\* the PUT of the first part (actualParts >= 1, so the loop body is entered).
NegotiateReturns ==
    /\ upPc = "negotiating"
    /\ \E n \in UrlCounts(actualParts), uploadId \in BOOLEAN, key \in FileKeys :
          /\ presignedUrls' = n
          /\ fileKey' = key
          /\ uploadIdSeen' = IF variant # "Dragdropdo" THEN uploadIdSeen
                              ELSE IF uploadId THEN "given" ELSE "missing"
          /\ IF ResponseError(n, actualParts, uploadId) # "ok"
             THEN /\ UploadReject(UploadCatch(
                         Err("UploadError",
                             ResponseError(n, actualParts, uploadId), 0, NoCause)))
                  /\ UNCHANGED <<putCalls, putLog, upRaised, upRaisedBy, wire>>
             ELSE IF ReadSource # None
             THEN /\ UploadReject(UploadCatch(ReadSource))
                  /\ upRaised' = ReadSource
                  /\ upRaisedBy' = "read"
                  /\ UNCHANGED <<putCalls, putLog, wire>>
             ELSE /\ upPc' = "putting"
                  /\ putCalls' = putCalls + 1
                  /\ putLog' = IssuePut(putLog, i)
                  /\ wire' = wire \cup {Put}
                  /\ UNCHANGED <<upError, upRaised, upRaisedBy>>
    /\ negotiated' = "ok"
    /\ UNCHANGED <<actualParts, i, bytesUploaded, prevReport, lastReport,
                   reportCount, negotiateCalls, completeCalls>>
    /\ UNCHANGED <<resultKey, putsReturned, uploadParts, completeBody,
                   putFailed, missingEtagAt, completed>>
    /\ UNCHANGED <<concVars, pairVars, cfgVars, upArgs, pollArgs, pollState, opVars>>

\* The PUT of part i + 1 fails: axios.put throws an untyped error.
PutFails ==
    /\ upPc = "putting"
    /\ UploadReject(UploadCatch(AxiosError))
    /\ upRaised' = AxiosError
    /\ upRaisedBy' = "put"
    /\ putFailed' = i + 1
    /\ UNCHANGED wire
    /\ UNCHANGED <<actualParts, negotiated, presignedUrls, i, bytesUploaded,
                   prevReport, lastReport, reportCount, negotiateCalls,
                   putCalls, completeCalls>>
    /\ UNCHANGED <<fileKey, resultKey, putLog, putsReturned, uploadParts,
                   completeBody, missingEtagAt, completed, uploadIdSeen>>
    /\ UNCHANGED <<concVars, pairVars, cfgVars, upArgs, pollArgs, pollState, opVars>>

\* A report that carries the loop index in place of the part number.
MutReport(k, uploaded) ==
    [currentPart |-> k, totalParts |-> actualParts,
     bytesUploaded |-> uploaded, totalBytes |-> fileSize,
     percentage |-> Percentage(uploaded, fileSize)]

\* onProgress({ currentPart: i + 1, totalParts: actualParts, ... })
Report(k, uploaded) ==
    [currentPart |-> k + 1, totalParts |-> actualParts,
     bytesUploaded |-> uploaded, totalBytes |-> fileSize,
     percentage |-> Percentage(uploaded, fileSize)]

\* One character of an ETag header value: the double quote, or a character
\* of the token the storage service gave the part.
QuoteChar == [quote |-> TRUE, tok |-> 0]
TokenChar(k) == [quote |-> FALSE, tok |-> k]

\* The ETag header of the response to the PUT of part k, as the storage
\* service writes it: the token bare, or between double quotes.
ETagStyles == {"plain", "quoted"}

\* The integrity token the storage service gives part k: a non-empty string
\* without a double quote, of a length that differs from part to part.
Token(k) == [j \in 1..(1 + (k % MaxTokenLen)) |-> TokenChar(k)]

RawETag(k) ==
    IF etagStyle = "quoted" THEN <<QuoteChar>> \o Token(k) \o <<QuoteChar>>
                            ELSE Token(k)

\* Only the leading double quote goes.
MutStripQuotes(s) == IF s # <<>> /\ Head(s) = QuoteChar THEN Tail(s) ELSE s

\* etag.replace(/^"|"$/g, ""): one leading and one trailing double quote go.
StripQuotes(s) ==
    LET a == IF s # <<>> /\ Head(s) = QuoteChar THEN Tail(s) ELSE s
    IN  IF a # <<>> /\ a[Len(a)] = QuoteChar THEN SubSeq(a, 1, Len(a) - 1)
                                              ELSE a

\* The loop index in place of the part number.
MutETagPart(k) == k

\* `Failed to get ETag for part ${i + 1}`
ETagPart(k) == k + 1

\* The entry carries the loop index in place of the part number.
MutPushPart(list, etag, k) ==
    Append(list, [etag |-> StripQuotes(etag), partNumber |-> k])

\* uploadParts.push({ etag: etag.replace(...), partNumber: i + 1 })
PushPart(list, etag, k) ==
    Append(list, [etag |-> StripQuotes(etag), partNumber |-> k + 1])

\* parts: uploadParts.map((part) => ({ etag, part_number }))
CompleteParts(list) ==
    [j \in 1..Len(list) |->
        [etag |-> list[j].etag, part_number |-> list[j].partNumber]]

\* The loop stops one part early.
MutMoreParts(k, n) == k + 1 < n

\* for (...; i < actualParts; ...)
MoreParts(k, n) == k < n

\* The PUT of part i + 1 returns: the rest of the loop body and, after it,
\* the next PUT, the completion request (Dragdropdo) or the return (D3Client).
PutReturns ==
    /\ upPc = "putting"
    /\ putsReturned' = putsReturned + 1
    /\ \E etag \in BOOLEAN :
          IF variant = "Dragdropdo" /\ ~etag
          THEN /\ UploadReject(UploadCatch(
                      Err("UploadError", "Failed to get ETag", ETagPart(i), NoCause)))
               /\ missingEtagAt' = i + 1
               /\ UNCHANGED <<i, bytesUploaded, prevReport, lastReport,
                              reportCount, putCalls, completeCalls>>
               /\ UNCHANGED <<resultKey, putLog, uploadParts, completeBody,
                              upRaised, upRaisedBy, wire>>
          ELSE LET uploaded == bytesUploaded + partSize(i, fileSize, actualParts)
                   pushed == IF variant = "Dragdropdo"
                             THEN PushPart(uploadParts, RawETag(i + 1), i)
                             ELSE uploadParts
               IN  /\ bytesUploaded' = uploaded
                   /\ uploadParts' = pushed
                   /\ UNCHANGED missingEtagAt
                   /\ IF onProgress = "absent"
                      THEN UNCHANGED <<prevReport, lastReport, reportCount>>
                      ELSE /\ prevReport' = lastReport
                           /\ lastReport' = Report(i, uploaded)
                           /\ reportCount' = reportCount + 1
                   /\ IF onProgress = "throws"
                      THEN /\ UploadReject(UploadCatch(CallbackError))
                           /\ upRaised' = CallbackError
                           /\ upRaisedBy' = "callback"
                           /\ UNCHANGED <<i, putCalls, completeCalls>>
                           /\ UNCHANGED <<resultKey, putLog, completeBody, wire>>
                      ELSE /\ i' = i + 1
                           /\ UNCHANGED <<upError, upRaised, upRaisedBy>>
                           /\ IF MoreParts(i + 1, actualParts)
                              THEN /\ putCalls' = putCalls + 1
                                   /\ putLog' = IssuePut(putLog, i + 1)
                                   /\ wire' = wire \cup {Put}
                                   /\ UNCHANGED <<upPc, completeCalls>>
                                   /\ UNCHANGED <<resultKey, completeBody>>
                              ELSE IF variant = "Dragdropdo"
                              THEN /\ completeCalls' = completeCalls + 1
                                   /\ completeBody' = CompleteParts(pushed)
                                   /\ wire' = wire \cup {ApiRequest("complete-upload")}
                                   /\ upPc' = "completing"
                                   /\ UNCHANGED <<putCalls, putLog, resultKey>>
                              ELSE /\ upPc' = "resolved"
                                   /\ resultKey' = fileKey
                                   /\ UNCHANGED <<putCalls, completeCalls>>
                                   /\ UNCHANGED <<putLog, completeBody, wire>>
    /\ UNCHANGED <<actualParts, negotiated, presignedUrls, negotiateCalls>>
    /\ UNCHANGED <<fileKey, putFailed, completed, uploadIdSeen>>
    /\ UNCHANGED <<concVars, pairVars, cfgVars, upArgs, pollArgs, pollState, opVars>>

\* A catch that treats the error as the outer catch does.
MutCompleteCatch(e) == UploadCatch(e)

\* catch (completeError): always wrapped; the outer catch passes it on.
CompleteCatch(e) ==
    UploadCatch(Err("UploadError", "Failed to complete upload", 0, Cause(e)))

CompleteFails ==
    /\ upPc = "completing"
    /\ \E outcome \in TransportFailures :
          /\ upRaised' = Interceptor(outcome)
          /\ UploadReject(CompleteCatch(Interceptor(outcome)))
    /\ upRaisedBy' = "complete"
    /\ completed' = "failed"
    /\ UNCHANGED <<actualParts, negotiated, presignedUrls, i, bytesUploaded,
                   prevReport, lastReport, reportCount, negotiateCalls,
                   putCalls, completeCalls>>
    /\ UNCHANGED <<fileKey, resultKey, putLog, putsReturned, uploadParts,
                   completeBody, putFailed, missingEtagAt>>
    /\ UNCHANGED <<uploadIdSeen, wire>>
    /\ UNCHANGED <<concVars, pairVars, cfgVars, upArgs, pollArgs, pollState, opVars>>

CompleteReturns ==
    /\ upPc = "completing"
    /\ upPc' = "resolved"
    /\ resultKey' = fileKey
    /\ completed' = "ok"
    /\ UNCHANGED <<actualParts, negotiated, presignedUrls, i, bytesUploaded,
                   prevReport, lastReport, reportCount, negotiateCalls,
                   putCalls, completeCalls, upError>>
    /\ UNCHANGED <<fileKey, putLog, putsReturned, uploadParts, completeBody,
                   putFailed, missingEtagAt, upRaised, upRaisedBy>>
    /\ UNCHANGED <<uploadIdSeen, wire>>
    /\ UNCHANGED <<concVars, pairVars, cfgVars, upArgs, pollArgs, pollState, opVars>>

----------------------------------------------------------------------------
(* getStatus and pollStatus                                                *)

\* The value of a field that is not there.
Undefined == "undefined"

\* The overall status of a status response: one of the four the service
\* documents, a value the client does not know, or none at all.
Statuses == {"queued", "running", "completed", "failed", "unknown", Undefined}

\* What filesData of a status response says about the files of the task.
FileStates == {"all-completed", "some-queued"}

\* A terminal check that looks at the files and not at the overall status.
MutTerminalByFiles(st) == st.files = "all-completed"

\* A terminal check that takes every status but the two of a task under
\* way for a final one.
MutTerminalNotRunning(st) == st.operationStatus \notin {"queued", "running"}

\* A terminal check that forgets the failed status.
MutTerminal(st) == st.operationStatus = "completed"

\* status.operationStatus === "completed" || status.operationStatus === "failed"
Terminal(st) == st.operationStatus \in {"completed", "failed"}

\* The comparison with >= in place of >.
MutExpired(elapsed, limit) == elapsed >= limit

\* A check that lets one more interval pass.
MutExpiredLate(elapsed, limit) == elapsed > limit + interval

\* if (Date.now() - startTime > timeout)
Expired(elapsed, limit) == elapsed > limit

\* A catch that wraps every error, typed ones included.
MutGetStatusCatch(e) == Err("ClientError", "Failed to get status", 0, Cause(e))

\* catch (error) of getStatus: typed errors pass, the rest is wrapped.
GetStatusCatch(e) ==
    IF Typed(e) THEN e
    ELSE Err("ClientError", "Failed to get status", 0, Cause(e))

\* A catch that wraps what it caught.
MutPollCatch(e) == Err("ClientError", "Polling failed", 0, Cause(e))

\* catch (error) of poll: reject(error)
PollCatch(e) == e

PollSettle(pc, result, e) ==
    /\ pollPc' = pc
    /\ pollResult' = result
    /\ pollError' = e

\* One run of poll() up to its await, at elapsed time t: the timeout check,
\* then the call of getStatus, which validates mainTaskId and sends the GET.
Iteration(t) ==
    /\ now' = t
    /\ checkedAt' = t
    /\ IF Expired(t, timeout)
       THEN /\ PollSettle("TimedOut", NoStatus,
                          Err("TimeoutError", "Polling timed out", 0, NoCause))
            /\ UNCHANGED <<fetches, statusRequests, wire>>
       ELSE /\ fetches' = fetches + 1
            /\ IF ~mainTaskId
               THEN /\ PollSettle("Errored", NoStatus, PollCatch(
                           Err("ValidationError", "mainTaskId is required", 0, NoCause)))
                    /\ UNCHANGED <<statusRequests, wire>>
               ELSE /\ statusRequests' = statusRequests + 1
                    /\ wire' = wire \cup {ApiRequest("status")}
                    /\ pollPc' = "fetching"
                    /\ UNCHANGED <<pollResult, pollError>>
    /\ UNCHANGED <<nonTerminal, lastFetched, updates, lastUpdateArg, raised>>
    /\ UNCHANGED <<concVars, pairVars, cfgVars, upArgs, upState, pollArgs, opVars>>

\* pollStatus is called: startTime is read and poll() runs at once, in the
\* same synchronous stretch of code, so its first check reads an elapsed
\* time of 0.
PollStart ==
    /\ call = "pollStatus"
    /\ pollPc = "start"
    /\ Iteration(0)
    /\ UNCHANGED stalls

\* A timer that is due at once.
MutTimerDue(t) == t

\* setTimeout(poll, interval), set at time t: the earliest time it fires.
TimerDue(t) == t + interval

\* The timer of setTimeout(poll, interval) fires, no earlier than interval
\* after it was set, and poll() runs again.  A timer takes some time to
\* fire even for an interval of 0 (less than a tick, perhaps), so the clock
\* advances: no more than MaxStalls timers in a row fire within the tick
\* they were set in.
TimerFires ==
    /\ pollPc = "waiting"
    /\ \E lag \in 0..MaxTimerLag :
          LET t == TimerDue(now) + lag
          IN  /\ t = now => stalls < MaxStalls
              /\ stalls' = IF t = now THEN stalls + 1 ELSE 0
              /\ Iteration(t)

\* The status request fails after some time: getStatus throws what the
\* interceptor threw, and poll rejects with it.
FetchFails ==
    /\ pollPc = "fetching"
    /\ \E latency \in 0..MaxLatency, outcome \in TransportFailures :
          /\ now' = now + latency
          /\ raised' = Interceptor(outcome)
          /\ PollSettle("Errored", NoStatus,
                        PollCatch(GetStatusCatch(Interceptor(outcome))))
    /\ UNCHANGED <<checkedAt, stalls, fetches, statusRequests, nonTerminal,
                   lastFetched, updates, lastUpdateArg, wire>>
    /\ UNCHANGED <<concVars, pairVars, cfgVars, upArgs, upState, pollArgs, opVars>>

\* The callback placed after the terminal check: the last status is not reported.
MutNotified(st) == onUpdate # "absent" /\ st.operationStatus \notin {"completed", "failed"}

\* if (onUpdate) { onUpdate(status); }  -- placed before the terminal check
Notified(st) == onUpdate # "absent"

\* A poll that does not set the timer for the next iteration.
MutAfterUpdateNoTimer(st) ==
    IF Terminal(st) THEN PollSettle("Resolved", st, None)
    ELSE /\ pollPc' = "stopped"
         /\ UNCHANGED <<pollResult, pollError>>

\* A poll that resolves and goes on to set the timer (no return after
\* resolve).
MutAfterUpdateNoReturn(st) ==
    /\ pollPc' = "waiting"
    /\ pollError' = pollError
    /\ pollResult' = IF Terminal(st) THEN st ELSE pollResult

\* A poll that looks at the time budget again when the response is there.
MutAfterUpdateDeadline(st) ==
    IF Expired(now', timeout)
    THEN PollSettle("TimedOut", NoStatus,
                    Err("TimeoutError", "Polling timed out", 0, NoCause))
    ELSE IF Terminal(st) THEN PollSettle("Resolved", st, None)
    ELSE /\ pollPc' = "waiting"
         /\ UNCHANGED <<pollResult, pollError>>

\* What poll does with a fetched status st after onUpdate returned.
AfterUpdate(st) ==
    IF Terminal(st) THEN PollSettle("Resolved", st, None)
    ELSE /\ pollPc' = "waiting"
         /\ UNCHANGED <<pollResult, pollError>>

\* The status request returns after some time: onUpdate, the terminal check,
\* and the timer for the next iteration.
FetchReturns ==
    /\ pollPc = "fetching"
    /\ \E latency \in 0..MaxLatency, s \in Statuses, f \in FileStates :
          LET st == [operationStatus |-> s, files |-> f, serial |-> fetches]
          IN  /\ now' = now + latency
              /\ stalls' = IF latency > 0 THEN 0 ELSE stalls
              /\ lastFetched' = st
              /\ nonTerminal' = IF Terminal(st) THEN nonTerminal
                                                ELSE nonTerminal + 1
              /\ IF Notified(st)
                 THEN /\ updates' = updates + 1
                      /\ lastUpdateArg' = st
                 ELSE UNCHANGED <<updates, lastUpdateArg>>
              /\ IF Notified(st) /\ onUpdate = "throws"
                 THEN PollSettle("Errored", NoStatus, PollCatch(CallbackError))
                 ELSE AfterUpdate(st)
    /\ UNCHANGED <<checkedAt, fetches, statusRequests, raised, wire>>
    /\ UNCHANGED <<concVars, pairVars, cfgVars, upArgs, upState, pollArgs, opVars>>

----------------------------------------------------------------------------
(* getStatus of Dragdropdo: the reading of the status response.  A JSON    *)
(* value is a record of its type and its content; the content of an object *)
(* is a function from its keys, a key being the sequence of its characters.*)

Str(x) == [type |-> "string", val |-> x]
Null == [type |-> "null", val |-> ""]
Undef == [type |-> "undefined", val |-> ""]
Arr(items) == [type |-> "array", val |-> items]
Obj(fields) == [type |-> "object", val |-> fields]

\* The property names of the source, character by character.
Spell ==
    [operationStatus |->
        <<"o", "p", "e", "r", "a", "t", "i", "o", "n", "S", "t", "a", "t", "u", "s">>,
     operation_status |->
        <<"o", "p", "e", "r", "a", "t", "i", "o", "n", "_", "s", "t", "a", "t", "u", "s">>,
     filesData |->
        <<"f", "i", "l", "e", "s", "D", "a", "t", "a">>,
     files_data |->
        <<"f", "i", "l", "e", "s", "_", "d", "a", "t", "a">>,
     fileKey |->
        <<"f", "i", "l", "e", "K", "e", "y">>,
     file_key |->
        <<"f", "i", "l", "e", "_", "k", "e", "y">>,
     status |->
        <<"s", "t", "a", "t", "u", "s">>,
     downloadLink |->
        <<"d", "o", "w", "n", "l", "o", "a", "d", "L", "i", "n", "k">>,
     download_link |->
        <<"d", "o", "w", "n", "l", "o", "a", "d", "_", "l", "i", "n", "k">>,
     errorCode |->
        <<"e", "r", "r", "o", "r", "C", "o", "d", "e">>,
     error_code |->
        <<"e", "r", "r", "o", "r", "_", "c", "o", "d", "e">>,
     errorMessage |->
        <<"e", "r", "r", "o", "r", "M", "e", "s", "s", "a", "g", "e">>,
     error_message |->
        <<"e", "r", "r", "o", "r", "_", "m", "e", "s", "s", "a", "g", "e">>]

\* letter.toUpperCase() of a letter a-z
Upper ==
    [a |-> "A", b |-> "B", c |-> "C", d |-> "D", e |-> "E", f |-> "F", g
    |-> "G", h |-> "H", i |-> "I", j |-> "J", k |-> "K", l |-> "L", m |->
    "M", n |-> "N", o |-> "O", p |-> "P", q |-> "Q", r |-> "R", s |-> "S",
    t |-> "T", u |-> "U", v |-> "V", w |-> "W", x |-> "X", y |-> "Y", z
    |-> "Z"]

\* The truthiness of a value, as || tests it: null, undefined and the empty
\* string are falsy, every object and array is truthy.
Truthy(v) ==
    CASE v.type = "string" -> v.val # ""
      [] v.type \in {"array", "object"} -> TRUE
      [] OTHER -> FALSE

\* a || b
Or(a, b) == IF Truthy(a) THEN a ELSE b

\* obj[name], undefined for a key the object does not have
Get(obj, name) == IF name \in DOMAIN obj.val THEN obj.val[name] ELSE Undef

\* key.replace(/_([a-z])/g, (_, letter) => letter.toUpperCase())
RECURSIVE CamelKey(_)
CamelKey(key) ==
    IF Len(key) < 2 THEN key
    ELSE IF key[1] = "_" /\ key[2] \in DOMAIN Upper
    THEN <<Upper[key[2]]>> \o CamelKey(SubSeq(key, 3, Len(key)))
    ELSE <<key[1]>> \o CamelKey(Tail(key))

\* toCamelCase(obj): arrays are converted item by item; an object gets, for
\* each key, the converted value under the converted key and then the
\* value as it was under the key itself, so that a key the conversion
\* leaves alone ends with the value as it was.  (No object of the model
\* holds both spellings of a name, so no other write meets these two.)
RECURSIVE toCamelCase(_)
toCamelCase(v) ==
    CASE v.type = "array" ->
            Arr([j \in 1..Len(v.val) |-> toCamelCase(v.val[j])])
      [] v.type = "object" ->
            LET keys == DOMAIN v.val
                camelKeys == {CamelKey(k) : k \in keys}
            IN  Obj([c \in keys \cup camelKeys |->
                       IF c \in keys THEN v.val[c]
                       ELSE toCamelCase(
                              v.val[CHOOSE k \in keys : CamelKey(k) = c])])
      [] OTHER -> v

\* The value getStatus of Dragdropdo returns for the data of a response.
GetStatusReturn(rawData) ==
    LET transformed == toCamelCase(rawData)
        list == Or(Or(Get(transformed, Spell.filesData),
                      Get(transformed, Spell.files_data)), Arr(<<>>))
    IN  [operationStatus |->
            Or(Get(transformed, Spell.operationStatus),
               Get(transformed, Spell.operation_status)),
         filesData |->
            [j \in 1..Len(list.val) |->
               LET f == list.val[j]
               IN  [fileKey |-> Or(Get(f, Spell.fileKey), Get(f, Spell.file_key)),
                    status |-> Get(f, Spell.status),
                    downloadLink |-> Or(Get(f, Spell.downloadLink),
                                        Get(f, Spell.download_link)),
                    errorCode |-> Or(Get(f, Spell.errorCode),
                                     Get(f, Spell.error_code)),
                    errorMessage |-> Or(Get(f, Spell.errorMessage),
                                        Get(f, Spell.error_message))]]]

NoStatusResult == [operationStatus |-> Undef, filesData |-> <<>>]

\* The two ways a response object spells its field names.
Namings == {"snake", "camel"}

\* The object that holds the given fields (a set of pairs of a key and a
\* value); a field whose value is undefined is left out, as JSON does.
ObjectOf(fields) ==
    LET present == {f \in fields : f[2].type # "undefined"}
    IN  Obj([k \in {f[1] : f \in present} |->
               (CHOOSE f \in present : f[1] = k)[2]])

\* The entry of filesData for file data d, its fields spelt the given way.
WireFile(d, naming) ==
    IF naming = "snake"
    THEN ObjectOf({<<Spell.file_key, d.fileKey>>,
                   <<Spell.status, d.status>>,
                   <<Spell.download_link, d.downloadLink>>,
                   <<Spell.error_code, d.errorCode>>,
                   <<Spell.error_message, d.errorMessage>>})
    ELSE ObjectOf({<<Spell.fileKey, d.fileKey>>,
                   <<Spell.status, d.status>>,
                   <<Spell.downloadLink, d.downloadLink>>,
                   <<Spell.errorCode, d.errorCode>>,
                   <<Spell.errorMessage, d.errorMessage>>})

\* response.data.data for status data d, the top level and the entries
\* spelt the given ways.
WireStatus(d, top, entry) ==
    LET list == Arr([j \in 1..Len(d.files) |-> WireFile(d.files[j], entry)])
    IN  IF top = "snake"
        THEN ObjectOf({<<Spell.operation_status, d.operationStatus>>,
                       <<Spell.files_data, list>>})
        ELSE ObjectOf({<<Spell.operationStatus, d.operationStatus>>,
                       <<Spell.filesData, list>>})

\* What the service may say about one file: the optional fields are absent,
\* null, empty or filled.
FileDatas ==
    [fileKey : {Str("file-key-1")},
     status : {Str("completed"), Str("failed")},
     downloadLink : {Undef, Null, Str("https://link")},
     errorCode : {Undef, Str("E1")},
     errorMessage : {Undef, Str(""), Str("message")}]

RECURSIVE SeqsUpTo(_, _)
SeqsUpTo(S, n) ==
    IF n = 0 THEN {<<>>}
    ELSE LET shorter == SeqsUpTo(S, n - 1)
         IN  shorter \cup {Append(q, x) : q \in shorter, x \in S}

StatusDatas ==
    [operationStatus : {Str("running"), Str("completed")},
     files : SeqsUpTo(FileDatas, MaxFiles)]

NoStatusData == [operationStatus |-> Undef, files |-> <<>>]

----------------------------------------------------------------------------
(* The constructor and the calls of one request: checkSupportedOperation,  *)
(* createOperation and getStatus called on its own                         *)

OneRequestCalls == {"checkSupportedOperation", "createOperation", "getStatus"}

ConvenienceMethods == {"convert", "compress", "merge", "zip", "share",
                       "lockPdf", "unlockPdf", "resetPdfPassword"}

Methods == {"createOperation"} \cup ConvenienceMethods

\* The parameters object of an operation: absent, or a set of fields.
NoParameters == [given |-> FALSE, fields |-> {}]
Parameters(fields) == [given |-> TRUE, fields |-> fields]

Options(a, params) ==
    [action |-> a, fileKeys |-> fileKeys, parameters |-> params,
     notes |-> methodArgs.notes]

\* compressionValue: string = "recommended" (the default replaces undefined)
DefaultTo(v, d) == IF v = Undefined THEN d ELSE v

\* The name of the method as the action, and no parameters.
MutConvenienceOptions(m) == Options(m, NoParameters)

\* The options a convenience method calls createOperation with.
ConvenienceOptions(m) ==
    CASE m = "convert" ->
            Options("convert",
                    Parameters({<<"convert_to", methodArgs.convertTo>>}))
      [] m = "compress" ->
            Options("compress",
                    Parameters({<<"compression_value",
                                  DefaultTo(methodArgs.compressionValue,
                                            "recommended")>>}))
      [] m = "merge" -> Options("merge", NoParameters)
      [] m = "zip" -> Options("zip", NoParameters)
      [] m = "share" -> Options("share", NoParameters)
      [] m = "lockPdf" ->
            Options("lock", Parameters({<<"password", methodArgs.password>>}))
      [] m = "unlockPdf" ->
            Options("unlock", Parameters({<<"password", methodArgs.password>>}))
      [] m = "resetPdfPassword" ->
            Options("reset_password",
                    Parameters({<<"old_password", methodArgs.oldPassword>>,
                                <<"new_password", methodArgs.newPassword>>}))

\* The options createOperation runs with: those of the caller, or those of
\* the convenience method called.  A caller's action is a name or empty.
OpOptions ==
    IF method \in ConvenienceMethods THEN ConvenienceOptions(method)
    ELSE Options(IF action THEN "custom" ELSE "", NoParameters)

\* The body of the POST of createOperation.
CreateBody(o) ==
    [action |-> o.action, file_keys |-> o.fileKeys,
     parameters |-> o.parameters, notes |-> o.notes]

NoBody ==
    [action |-> "none", file_keys |-> [given |-> FALSE, length |-> 0],
     parameters |-> NoParameters, notes |-> Undefined]

\* The task ids a create-operation response may carry.
TaskIds == {"task-1", "task-2"}

\* The checks a call makes on its options before its try block: the message
\* of the validation error thrown, "ok" when the options pass.
OpValidation ==
    CASE call = "checkSupportedOperation" /\ ~ext -> "Extension (ext) is required"
      [] call = "createOperation" /\ OpOptions.action = "" -> "Action is required"
      [] call = "createOperation" /\ (~fileKeys.given \/ fileKeys.length = 0) ->
            "At least one file key is required"
      [] call = "getStatus" /\ ~mainTaskId -> "mainTaskId is required"
      [] OTHER -> "ok"

\* The message of the error a call wraps an untyped error in.
OpWrapMessage ==
    CASE call = "checkSupportedOperation" -> "Failed to check supported operation"
      [] call = "createOperation" -> "Failed to create operation"
      [] OTHER -> "Failed to get status"

\* The path of the request of a call of one request.
OpPath ==
    CASE call = "checkSupportedOperation" -> "supported-operation"
      [] call = "createOperation" -> "do"
      [] OTHER -> "status"

\* catch (error) of the three calls: typed errors pass, the rest is wrapped
\* in the base error class.
OpCatch(e) ==
    IF Typed(e) THEN e ELSE Err("ClientError", OpWrapMessage, 0, Cause(e))

\* new D3Client(config) / new Dragdropdo(config)
Construct ==
    /\ call = "constructor"
    /\ opPc = "start"
    /\ IF ~apiKey
       THEN /\ opPc' = "rejected"
            /\ opError' = Err("ValidationError", "API key is required", 0, NoCause)
       ELSE /\ opPc' = "resolved"
            /\ UNCHANGED opError
    /\ UNCHANGED <<opArgs, opRequests, opRaised, opBody, opResponse, opResult>>
    /\ UNCHANGED <<statusVars, wire>>
    /\ UNCHANGED <<concVars, pairVars, cfgVars, upArgs, upState, pollArgs, pollState>>

\* A call of one request up to its await: the checks, then the request.
OpStart ==
    /\ call \in OneRequestCalls
    /\ opPc = "start"
    /\ IF OpValidation # "ok"
       THEN /\ opPc' = "rejected"
            /\ opError' = Err("ValidationError", OpValidation, 0, NoCause)
            /\ UNCHANGED <<opRequests, opBody, wire>>
       ELSE /\ opPc' = "requesting"
            /\ opRequests' = opRequests + 1
            /\ wire' = wire \cup {ApiRequest(OpPath)}
            /\ opBody' = IF call = "createOperation" THEN CreateBody(OpOptions)
                                                     ELSE opBody
            /\ UNCHANGED opError
    /\ UNCHANGED <<opArgs, opRaised, opResponse, opResult, statusVars>>
    /\ UNCHANGED <<concVars, pairVars, cfgVars, upArgs, upState, pollArgs, pollState>>

\* The request fails, or its response has no body to read the result from.
OpFails ==
    /\ opPc = "requesting"
    /\ \E outcome \in ServiceFailures :
          /\ opRaised' = Raised(outcome)
          /\ opError' = OpCatch(Raised(outcome))
    /\ opPc' = "rejected"
    /\ UNCHANGED <<opArgs, opRequests, opBody, opResponse, opResult, statusVars>>
    /\ UNCHANGED wire
    /\ UNCHANGED <<concVars, pairVars, cfgVars, upArgs, upState, pollArgs, pollState>>

\* The response arrives; createOperation returns the mainTaskId it carries,
\* getStatus the data of the response: as they are (D3Client), or read
\* field by field under both spellings (Dragdropdo).
OpReturns ==
    /\ opPc = "requesting"
    /\ opPc' = "resolved"
    /\ IF call = "createOperation"
       THEN \E id \in TaskIds :
               /\ opResponse' = id
               /\ opResult' = id
       ELSE UNCHANGED <<opResponse, opResult>>
    /\ IF call = "getStatus"
       THEN \E d \in StatusDatas, top \in Namings, entry \in Namings :
               /\ statusData' = d
               /\ statusNames' = <<top, entry>>
               /\ statusResult' =
                     IF variant = "Dragdropdo"
                     THEN GetStatusReturn(WireStatus(d, top, entry))
                     ELSE WireStatus(d, top, entry)
       ELSE UNCHANGED statusVars
    /\ UNCHANGED <<opArgs, opRequests, opRaised, opError, opBody, wire>>
    /\ UNCHANGED <<concVars, pairVars, cfgVars, upArgs, upState, pollArgs, pollState>>

----------------------------------------------------------------------------
(* D3Client.uploadFile of the same bytes given as a path and as a Buffer.  *)
(* A run is the record of the locals of one call and of the requests it    *)
(* has issued; fileSize is the number of bytes, fileName and parts are the *)
(* options both calls are given.  The file the path names exists, holds    *)
(* the bytes and is not changed during the call.                           *)

NoResult == [fileKey |-> "none", presignedUrls |-> 0]

NoRun == [pc |-> "start", size |-> 0, n |-> 0, k |-> 0, requests |-> <<>>,
          result |-> NoResult, error |-> None]

\* A size that counts one byte more for a file than for a Buffer.
MutSourceSize(kind, bytes) == IF kind = "path" THEN bytes + 1 ELSE bytes

\* fileSize = fs.statSync(file).size for a path, file.length for a Buffer
SourceSize(kind, bytes) ==
    CASE kind = "path" -> bytes
      [] kind = "buffer" -> bytes

\* The request body of the negotiate POST.
NegotiateRequest(size, n) ==
    [to |-> "negotiate", url |-> 0, size |-> size, parts |-> n,
     from |-> 0, upto |-> 0]

\* The PUT of iteration i = k: presignedUrls[k] and the chunk.  The chunk is
\* cut from fs.readFileSync(file) for a path and from the Buffer itself
\* otherwise, which hold the same bytes.
PutRequest(r, kind, k) ==
    LET chunk == SliceRange(PartStart(k, r.size, r.n), PartEnd(k, r.size, r.n),
                            SourceSize(kind, fileSize))
    IN  [to |-> "location", url |-> UrlFor(k), size |-> 0, parts |-> 0,
         from |-> chunk.from, upto |-> chunk.upto]

\* The call up to its first await.
RunStart(kind) ==
    IF ~fileName
    THEN [NoRun EXCEPT !.pc = "rejected",
                       !.error = Err("ValidationError", "fileName is required",
                                     0, NoCause)]
    ELSE LET size == SourceSize(kind, fileSize)
             n == ActualParts(parts, size)
         IN  [NoRun EXCEPT !.pc = "negotiating", !.size = size, !.n = n,
                           !.requests = <<NegotiateRequest(size, n)>>]

RunRejected(r, e) == [r EXCEPT !.pc = "rejected", !.error = UploadCatch(e)]

\* The negotiate response arrives with urls locations and file key key.
RunNegotiated(r, kind, urls, key) ==
    IF Mismatch(urls, r.n)
    THEN RunRejected(r, Err("UploadError", "Mismatch", 0, NoCause))
    ELSE [r EXCEPT !.pc = "putting",
                   !.result = [fileKey |-> key, presignedUrls |-> urls],
                   !.requests = Append(@, PutRequest(r, kind, 0))]

\* The PUT of part k + 1 returns.
RunPutReturned(r, kind) ==
    IF MoreParts(r.k + 1, r.n)
    THEN [r EXCEPT !.k = @ + 1,
                   !.requests = Append(@, PutRequest(r, kind, r.k + 1))]
    ELSE [r EXCEPT !.k = @ + 1, !.pc = "resolved"]

\* Both calls wait for the answer to the same request.
PairAt(pc) ==
    /\ runP.pc = pc
    /\ runB.pc = pc
    /\ runP.requests = runB.requests

PairStart ==
    /\ PairAt("start")
    /\ runP' = RunStart("path")
    /\ runB' = RunStart("buffer")
    /\ UNCHANGED <<wire, concVars, cfgVars, upArgs, upState, pollArgs, pollState,
                   opVars>>

PairNegotiateFails ==
    /\ PairAt("negotiating")
    /\ \E outcome \in ServiceFailures :
          /\ runP' = RunRejected(runP, Raised(outcome))
          /\ runB' = RunRejected(runB, Raised(outcome))
    /\ UNCHANGED <<wire, concVars, cfgVars, upArgs, upState, pollArgs, pollState,
                   opVars>>

PairNegotiateReturns ==
    /\ PairAt("negotiating")
    /\ \E urls \in UrlCounts(runP.n), key \in FileKeys :
          /\ runP' = RunNegotiated(runP, "path", urls, key)
          /\ runB' = RunNegotiated(runB, "buffer", urls, key)
    /\ UNCHANGED <<wire, concVars, cfgVars, upArgs, upState, pollArgs, pollState,
                   opVars>>

PairPutFails ==
    /\ PairAt("putting")
    /\ runP' = RunRejected(runP, AxiosError)
    /\ runB' = RunRejected(runB, AxiosError)
    /\ UNCHANGED <<wire, concVars, cfgVars, upArgs, upState, pollArgs, pollState,
                   opVars>>

PairPutReturns ==
    /\ PairAt("putting")
    /\ runP' = RunPutReturned(runP, "path")
    /\ runB' = RunPutReturned(runB, "buffer")
    /\ UNCHANGED <<wire, concVars, cfgVars, upArgs, upState, pollArgs, pollState,
                   opVars>>

----------------------------------------------------------------------------
(* Several calls (pollStatus, or D3Client.uploadFile of a Buffer) made on  *)
(* one client and running interleaved.  Node runs one callback at a time,  *)
(* so an action is one callback of one call; the clock is shared.  A call  *)
(* is the record of the variables its closure holds.                       *)

CallIds == 1..MaxCalls

\* The fields the constructor sets: this.apiKey, this.baseURL, this.timeout
\* and the default headers of this.axiosInstance.
NewClient ==
    [apiKey |-> "api-key", baseURL |-> "base-url", timeout |-> 30000,
     headers |-> {"Content-Type", "credential"}]

NoAnswer == [operationStatus |-> "none", taskId |-> "none"]

NoCall ==
    [kind |-> "none", pc |-> "idle", taskId |-> "none", startTime |-> 0,
     timeout |-> 0, interval |-> 0, timerSetAt |-> 0, requests |-> 0,
     requested |-> "none", result |-> NoAnswer, error |-> None,
     run |-> NoRun, key |-> "none"]

\* The time of the call that started last, as if startTime were a field of
\* the client.
MutElapsed(r) ==
    clock - Max(r.startTime,
                CHOOSE t \in {calls[c].startTime : c \in CallIds} :
                   \A c \in CallIds : calls[c].startTime <= t)

\* Date.now() - startTime, startTime being a constant of the call's closure
Elapsed(r) == clock - r.startTime

\* `/v1/external/status/${options.mainTaskId}`: the id the GET asks for
StatusUrl(r) == r.taskId

\* One run of poll() of the call r up to its await.
CallIteration(r) ==
    IF Expired(Elapsed(r), r.timeout)
    THEN [r EXCEPT !.pc = "TimedOut",
                   !.error = Err("TimeoutError", "Polling timed out", 0, NoCause)]
    ELSE [r EXCEPT !.pc = "fetching", !.requests = @ + 1,
                   !.requested = StatusUrl(r)]

\* pollStatus is called on the client.
CallPollStart(c) ==
    /\ calls[c].pc = "idle"
    /\ \E id \in TaskIds, t \in 0..MaxCallTimeout, iv \in 1..MaxInterval :
          calls' = [calls EXCEPT ![c] =
                      CallIteration([NoCall EXCEPT !.kind = "pollStatus",
                                                   !.taskId = id,
                                                   !.startTime = clock,
                                                   !.timeout = t,
                                                   !.interval = iv])]
    /\ UNCHANGED <<client, clock>>
    /\ UNCHANGED <<wire, pairVars, cfgVars, upArgs, upState, pollArgs, pollState,
                   opVars>>

\* The timer of a call fires, no earlier than its interval after it was set.
CallTimerFires(c) ==
    /\ calls[c].pc = "waiting"
    /\ clock >= calls[c].timerSetAt + calls[c].interval
    /\ calls' = [calls EXCEPT ![c] = CallIteration(calls[c])]
    /\ UNCHANGED <<client, clock>>
    /\ UNCHANGED <<wire, pairVars, cfgVars, upArgs, upState, pollArgs, pollState,
                   opVars>>

\* The status request of a call is answered, with the status of the task
\* its URL names; or it fails, of which one way is followed here.
CallFetchReturns(c) ==
    /\ calls[c].pc = "fetching"
    /\ \E s \in Statuses :
          LET st == [operationStatus |-> s, taskId |-> calls[c].requested]
          IN  calls' = [calls EXCEPT ![c] =
                 IF Terminal(st)
                 THEN [@ EXCEPT !.pc = "Resolved", !.result = st]
                 ELSE [@ EXCEPT !.pc = "waiting", !.timerSetAt = clock]]
    /\ UNCHANGED <<client, clock>>
    /\ UNCHANGED <<wire, pairVars, cfgVars, upArgs, upState, pollArgs, pollState,
                   opVars>>

CallFetchFails(c) ==
    /\ calls[c].pc = "fetching"
    /\ calls' = [calls EXCEPT ![c] =
                   [@ EXCEPT !.pc = "Errored",
                             !.error = PollCatch(GetStatusCatch(
                                          Interceptor("no_response")))]]
    /\ UNCHANGED <<client, clock>>
    /\ UNCHANGED <<wire, pairVars, cfgVars, upArgs, upState, pollArgs, pollState,
                   opVars>>

\* uploadFile is called on the client with a Buffer.
CallUploadStart(c) ==
    /\ calls[c].pc = "idle"
    /\ calls' = [calls EXCEPT ![c] =
                   [NoCall EXCEPT !.kind = "uploadFile", !.pc = "uploading",
                                  !.run = RunStart("buffer")]]
    /\ UNCHANGED <<client, clock>>
    /\ UNCHANGED <<wire, pairVars, cfgVars, upArgs, upState, pollArgs, pollState,
                   opVars>>

CallNegotiateFails(c) ==
    /\ calls[c].run.pc = "negotiating"
    /\ calls' = [calls EXCEPT ![c].run =
                                 RunRejected(@, Raised("no_response"))]
    /\ UNCHANGED <<client, clock>>
    /\ UNCHANGED <<wire, pairVars, cfgVars, upArgs, upState, pollArgs, pollState,
                   opVars>>

CallNegotiateReturns(c) ==
    /\ calls[c].run.pc = "negotiating"
    /\ \E urls \in UrlCounts(calls[c].run.n), key \in FileKeys :
          calls' = [calls EXCEPT ![c].run = RunNegotiated(@, "buffer", urls, key),
                                 ![c].key = key]
    /\ UNCHANGED <<client, clock>>
    /\ UNCHANGED <<wire, pairVars, cfgVars, upArgs, upState, pollArgs, pollState,
                   opVars>>

CallPutFails(c) ==
    /\ calls[c].run.pc = "putting"
    /\ calls' = [calls EXCEPT ![c].run = RunRejected(@, AxiosError)]
    /\ UNCHANGED <<client, clock>>
    /\ UNCHANGED <<wire, pairVars, cfgVars, upArgs, upState, pollArgs, pollState,
                   opVars>>

CallPutReturns(c) ==
    /\ calls[c].run.pc = "putting"
    /\ calls' = [calls EXCEPT ![c].run = RunPutReturned(@, "buffer")]
    /\ UNCHANGED <<client, clock>>
    /\ UNCHANGED <<wire, pairVars, cfgVars, upArgs, upState, pollArgs, pollState,
                   opVars>>

\* Time passes.
Tick ==
    /\ clock < MaxClock
    /\ clock' = clock + 1
    /\ UNCHANGED <<client, calls>>
    /\ UNCHANGED <<wire, pairVars, cfgVars, upArgs, upState, pollArgs, pollState,
                   opVars>>

----------------------------------------------------------------------------
(* Inputs, initial state and next-state relation                           *)

FileSizes ==
    (0..MaxSmallSize)
      \cup {k * chunkSize + d : k \in 1..MaxChunks, d \in {-1, 0, 1}}
      \cup {(MaxPartCount + 1) * chunkSize}

RequestedParts ==
    {[given |-> FALSE, value |-> 0]}
      \cup {[given |-> TRUE, value |-> v] :
              v \in (-1..MaxReqParts) \cup {MaxPartCount, MaxPartCount + 1}}

Callbacks == {"absent", "returns", "throws"}

NoCalls ==
    /\ client = NewClient
    /\ clock = 0
    /\ calls = [c \in CallIds |-> NoCall]

UploadIdle ==
    /\ upPc = "start"
    /\ actualParts = 0
    /\ negotiated = "none"
    /\ presignedUrls = 0
    /\ i = 0
    /\ bytesUploaded = 0
    /\ prevReport = NoReport
    /\ lastReport = NoReport
    /\ reportCount = 0
    /\ negotiateCalls = 0
    /\ putCalls = 0
    /\ completeCalls = 0
    /\ upError = None
    /\ fileKey = "none"
    /\ resultKey = "none"
    /\ putLog = <<>>
    /\ putsReturned = 0
    /\ uploadParts = <<>>
    /\ completeBody = <<>>
    /\ putFailed = 0
    /\ missingEtagAt = 0
    /\ upRaised = None
    /\ upRaisedBy = "none"
    /\ completed = "none"
    /\ uploadIdSeen = "none"

OpIdle ==
    /\ opPc = "start"
    /\ opRequests = 0
    /\ opRaised = None
    /\ opError = None
    /\ opBody = NoBody
    /\ opResponse = "none"
    /\ opResult = "none"
    /\ statusData = NoStatusData
    /\ statusNames = <<"none", "none">>
    /\ statusResult = NoStatusResult

PollIdle ==
    /\ pollPc = "start"
    /\ now = 0
    /\ checkedAt = 0
    /\ stalls = 0
    /\ fetches = 0
    /\ statusRequests = 0
    /\ nonTerminal = 0
    /\ lastFetched = NoStatus
    /\ updates = 0
    /\ lastUpdateArg = NoStatus
    /\ raised = None
    /\ pollResult = NoStatus
    /\ pollError = None

\* Arguments of the calls the behaviour does not follow.
NoUploadArgs ==
    /\ fileName = TRUE
    /\ file = "path"
    /\ fileSize = 0
    /\ parts = [given |-> FALSE, value |-> 0]
    /\ onProgress = "absent"
    /\ etagStyle = "plain"

NoMethodArgs ==
    [convertTo |-> Undefined, compressionValue |-> Undefined,
     password |-> Undefined, oldPassword |-> Undefined,
     newPassword |-> Undefined, notes |-> Undefined]

NoPollArgs ==
    /\ interval = 1
    /\ timeout = 0
    /\ onUpdate = "absent"

NoOpArgs ==
    /\ ext = TRUE
    /\ action = TRUE
    /\ fileKeys = [given |-> TRUE, length |-> 1]
    /\ method = "none"
    /\ methodArgs = NoMethodArgs

\* The arguments a convenience method may be given.
MethodArgs ==
    [convertTo : {"png"}, compressionValue : {Undefined, "low"},
     password : {"pw"}, oldPassword : {"pw-old"}, newPassword : {"pw-new"},
     notes : {Undefined, "notes"}]

FileKeyLists ==
    {[given |-> FALSE, length |-> 0]}
      \cup {[given |-> TRUE, length |-> n] : n \in 0..MaxFileKeys}

Calls == {"constructor", "uploadFile", "pollStatus"} \cup OneRequestCalls

Init ==
    /\ variant \in {"D3Client", "Dragdropdo"}
    /\ call \in Calls
    /\ runP = NoRun
    /\ runB = NoRun
    /\ NoCalls
    /\ wire = {}
    /\ UploadIdle
    /\ PollIdle
    /\ OpIdle
    /\ apiKey \in (IF call = "constructor" THEN BOOLEAN ELSE {TRUE})
    /\ mainTaskId \in (IF call \in {"pollStatus", "getStatus"} THEN BOOLEAN
                                                                ELSE {TRUE})
    /\ IF call = "uploadFile"
       THEN /\ fileName \in BOOLEAN
            /\ file \in {"path", "missing", "buffer", "stream"}
            /\ fileSize \in FileSizes
            /\ parts \in RequestedParts
            /\ onProgress \in Callbacks
            /\ etagStyle \in (IF variant = "Dragdropdo" THEN ETagStyles
                                                         ELSE {"plain"})
       ELSE NoUploadArgs
    /\ IF call = "pollStatus"
       THEN /\ interval \in 0..MaxInterval
            /\ timeout \in -1..MaxTimeout
            /\ onUpdate \in Callbacks
       ELSE NoPollArgs
    /\ IF call = "checkSupportedOperation"
       THEN /\ ext \in BOOLEAN
            /\ action \in BOOLEAN
            /\ fileKeys = [given |-> FALSE, length |-> 0]
            /\ method = "none"
            /\ methodArgs = NoMethodArgs
       ELSE IF call = "createOperation"
       THEN /\ ext = TRUE
            /\ method \in Methods
            /\ action \in (IF method = "createOperation" THEN BOOLEAN
                                                          ELSE {TRUE})
            /\ fileKeys \in FileKeyLists
            /\ methodArgs \in
                  (IF method = "createOperation"
                   THEN {[NoMethodArgs EXCEPT !.notes = n] :
                            n \in {Undefined, "notes"}}
                   ELSE MethodArgs)
       ELSE NoOpArgs

Next ==
    \/ UploadStart
    \/ NegotiateFails
    \/ NegotiateReturns
    \/ PutFails
    \/ PutReturns
    \/ CompleteFails
    \/ CompleteReturns
    \/ PollStart
    \/ TimerFires
    \/ FetchFails
    \/ FetchReturns
    \/ Construct
    \/ OpStart
    \/ OpFails
    \/ OpReturns

Spec == Init /\ [][Next]_vars

\* The two calls of D3Client.uploadFile side by side, answered alike.
PairInit ==
    /\ variant = "D3Client"
    /\ call = "uploadFile"
    /\ apiKey = TRUE
    /\ etagStyle = "plain"
    /\ runP = NoRun
    /\ runB = NoRun
    /\ NoCalls
    /\ wire = {}
    /\ UploadIdle
    /\ PollIdle
    /\ OpIdle
    /\ fileName \in BOOLEAN
    /\ file = "path"
    /\ fileSize \in FileSizes
    /\ parts \in RequestedParts
    /\ onProgress = "absent"
    /\ mainTaskId = TRUE
    /\ NoPollArgs
    /\ NoOpArgs

PairNext ==
    \/ PairStart
    \/ PairNegotiateFails
    \/ PairNegotiateReturns
    \/ PairPutFails
    \/ PairPutReturns

PairSpec == PairInit /\ [][PairNext]_vars

\* Calls made on one D3Client, running interleaved (pollStatus is the same
\* code in Dragdropdo).  The uploads are all of the same few bytes in the
\* same number of parts.
CallsInit ==
    /\ variant = "D3Client"
    /\ call = "uploadFile"
    /\ apiKey = TRUE
    /\ etagStyle = "plain"
    /\ runP = NoRun
    /\ runB = NoRun
    /\ NoCalls
    /\ wire = {}
    /\ UploadIdle
    /\ PollIdle
    /\ OpIdle
    /\ fileName = TRUE
    /\ file = "buffer"
    /\ fileSize \in {0, MaxSmallSize}
    /\ parts = [given |-> TRUE, value |-> 2]
    /\ onProgress = "absent"
    /\ mainTaskId = TRUE
    /\ NoPollArgs
    /\ NoOpArgs

CallsNext ==
    \/ Tick
    \/ \E c \in CallIds : CallPollStart(c)
    \/ \E c \in CallIds : CallTimerFires(c)
    \/ \E c \in CallIds : CallFetchReturns(c)
    \/ \E c \in CallIds : CallFetchFails(c)
    \/ \E c \in CallIds : CallUploadStart(c)
    \/ \E c \in CallIds : CallNegotiateFails(c)
    \/ \E c \in CallIds : CallNegotiateReturns(c)
    \/ \E c \in CallIds : CallPutFails(c)
    \/ \E c \in CallIds : CallPutReturns(c)

CallsSpec == CallsInit /\ [][CallsNext]_vars

\* pollStatus alone, with the scheduling its environment guarantees: the
\* synchronous start runs, every status request returns or fails, every
\* timer that was set fires.
LiveInit == Init /\ call = "pollStatus"

LiveNext ==
    \/ PollStart
    \/ TimerFires
    \/ FetchFails
    \/ FetchReturns

LiveSpec ==
    /\ LiveInit
    /\ [][LiveNext]_vars
    /\ WF_vars(PollStart)
    /\ WF_vars(TimerFires)
    /\ WF_vars(FetchFails \/ FetchReturns)

----------------------------------------------------------------------------
(* Properties of uploadFile                                                *)

Clamp(v, lo, hi) == IF v < lo THEN lo ELSE IF v > hi THEN hi ELSE v

\* C1: the part count sent in the negotiate request equals
\* clamp(P ?? ceil(S / 5 MiB), 1, 100), where a supplied P (0 included) is
\* the value that is clamped and only an absent P falls back to the quotient.
C1_PartCountAsClaimed ==
    negotiateCalls > 0 =>
        actualParts = Clamp(IF parts.given THEN parts.value
                            ELSE CeilDiv(fileSize, 5 * 1024 * 1024), 1, 100)

\* C2: the N byte ranges uploaded for a source of S bytes are contiguous and
\* non-overlapping, the first starts at 0, the last ends at S, every range
\* but the last has length ceil(S / N), and the last has a length in
\* 1..ceil(S / N).
C2_ChunkCoverageAsClaimed ==
    upPc \in {"putting", "completing", "resolved"} =>
        LET N == actualParts
            S == fileSize
            len == CeilDiv(S, N)
            start(k) == PartStart(k, S, N)
            end(k) == PartEnd(k, S, N)
        IN  /\ start(0) = 0
            /\ end(N - 1) = S
            /\ \A k \in 0..(N - 1) : start(k) <= end(k)
            /\ \A k \in 0..(N - 2) :
                  /\ end(k) = start(k + 1)
                  /\ end(k) - start(k) = len
            /\ end(N - 1) - start(N - 1) > 0
            /\ end(N - 1) - start(N - 1) <= len

\* C3: successive onProgress reports of one call have strictly increasing
\* bytesUploaded and currentPart, and the final report (the one for the last
\* part) has bytesUploaded = totalBytes and percentage = 100.
C3_ProgressAsClaimed ==
    /\ reportCount >= 2 =>
          /\ lastReport.bytesUploaded > prevReport.bytesUploaded
          /\ lastReport.currentPart > prevReport.currentPart
    /\ (reportCount >= 1 /\ lastReport.currentPart = lastReport.totalParts) =>
          /\ lastReport.bytesUploaded = lastReport.totalBytes
          /\ lastReport.percentage = [nan |-> FALSE, value |-> 100]

\* C4: when the negotiate response carries a number of transfer locations
\* other than the requested part count, uploadFile rejects with UploadError
\* and has issued no PUT and no completion request.
C4_MismatchFailsFast ==
    (negotiated = "ok" /\ presignedUrls # actualParts) =>
        /\ upPc = "rejected"
        /\ upError.kind = "UploadError"
        /\ putCalls = 0
        /\ completeCalls = 0

\* A response with one location too many, for a request of several parts, was
\* refused.
C4_Witness ==
    /\ negotiated = "ok"
    /\ actualParts > 1
    /\ presignedUrls = actualParts + 1
    /\ upPc = "rejected"
    /\ upError.msg = "Mismatch"

----------------------------------------------------------------------------
(* Properties of pollStatus                                                *)

IsTerminal(st) == st.operationStatus \in {"completed", "failed"}

Settled == {"Resolved", "TimedOut", "Errored"}

C6_TimeoutWindowAsClaimed ==
    (pollPc = "TimedOut" /\ timeout = 5 /\ interval = 1) =>
        /\ pollError.kind = "TimeoutError"
        /\ now >= timeout
        /\ now <= timeout + interval

\* C7: every run of pollStatus, slow status requests included, settles no
\* later than timeout + interval after it was started.
C7_BudgetAsClaimed ==
    pollPc \in Settled => now <= timeout + interval

\* C8: every poll iteration begins by comparing the elapsed time with
\* timeout, before any status request of the iteration: when elapsed >
\* timeout the call rejects with TimeoutError and the iteration issues no
\* request; when elapsed <= timeout (equality included) the iteration issues
\* the status request (it calls getStatus, which sends the GET for a
\* mainTaskId that is not empty).  No request is issued anywhere else.
C8_TimeoutCheckFirst ==
    [][ /\ (pollPc \in {"start", "waiting"} /\ pollPc' # pollPc) =>
              IF now' > timeout
              THEN /\ pollPc' = "TimedOut"
                   /\ pollError'.kind = "TimeoutError"
                   /\ fetches' = fetches
                   /\ statusRequests' = statusRequests
              ELSE /\ pollPc' # "TimedOut"
                   /\ fetches' = fetches + 1
                   /\ mainTaskId => /\ statusRequests' = statusRequests + 1
                                    /\ pollPc' = "fetching"
        /\ (fetches' # fetches \/ statusRequests' # statusRequests) =>
              pollPc \in {"start", "waiting"}
      ]_vars

\* A request issued in a later iteration at elapsed = timeout exactly.
C8_Witness ==
    /\ pollPc = "fetching"
    /\ fetches >= 2
    /\ checkedAt = timeout
    /\ now = timeout

C10_FetchErrorPropagates ==
    /\ [](raised # None => (pollPc = "Errored" /\ pollError = raised))
    /\ [][ /\ raised' # raised =>
                 /\ pollPc = "fetching"
                 /\ raised'.kind \in {"APIError", "ClientError"}
                 /\ UNCHANGED <<fetches, statusRequests, updates>>
           /\ pollPc = "Errored" =>
                 UNCHANGED <<fetches, statusRequests, updates, pollError>>
         ]_vars

\* The third fetch failed with an API error, after two onUpdate invocations.
C10_Witness ==
    /\ pollPc = "Errored"
    /\ raised.kind = "APIError"
    /\ pollError = raised
    /\ fetches = 3
    /\ updates = 2

----------------------------------------------------------------------------
(* Properties of the requests a call issues                                *)

\* Every HTTP request the call has issued, to the API or to a location.
HttpRequests ==
    negotiateCalls + putCalls + completeCalls + statusRequests + opRequests

\* C11: a public call that fails with a validation error (the constructor
\* without an API key, uploadFile without a file name or with a file that is
\* missing or of an unsupported kind, checkSupportedOperation without an
\* extension, createOperation without an action or without file keys,
\* getStatus or pollStatus without a task id) has issued no HTTP request.
C11_ValidationBeforeRequest ==
    (\/ upError.kind = "ValidationError"
     \/ pollError.kind = "ValidationError"
     \/ opError.kind = "ValidationError") => HttpRequests = 0

\* createOperation with an action and an empty list of file keys.
C11_Witness ==
    /\ call = "createOperation"
    /\ action
    /\ fileKeys = [given |-> TRUE, length |-> 0]
    /\ opPc = "rejected"
    /\ opError.kind = "ValidationError"
    /\ opRequests = 0

\* C12: the parts are sent one after the other in ascending order of part
\* number: the PUT of a part is issued only when every PUT before it has
\* returned a response and none has failed, so at most one PUT is in flight.
C12_SequentialPuts ==
    /\ [](/\ Len(putLog) <= putsReturned + 1
          /\ \A j \in 1..Len(putLog) : putLog[j].part = j)
    /\ [][putLog' # putLog =>
             /\ Len(putLog') = Len(putLog) + 1
             /\ putsReturned' = Len(putLog)
             /\ putFailed' = 0]_vars

\* The third PUT is in flight, the first two have returned.
C12_Witness ==
    /\ upPc = "putting"
    /\ Len(putLog) = 3
    /\ putsReturned = 2

\* C13: an upload that resolved issued exactly one negotiate request, then
\* exactly N PUT requests, the one of part k to the k-th location of the
\* response (so every location was used once), then the completion request
\* (exactly one in Dragdropdo, none in D3Client), and no other request.
C13_RequestsOfUpload ==
    /\ [](upPc = "resolved" =>
             /\ negotiateCalls = 1
             /\ presignedUrls = actualParts
             /\ putCalls = actualParts
             /\ Len(putLog) = actualParts
             /\ \A k \in 1..actualParts : putLog[k].part = k /\ putLog[k].url = k
             /\ completeCalls = (IF variant = "Dragdropdo" THEN 1 ELSE 0)
             /\ HttpRequests = negotiateCalls + putCalls + completeCalls)
    /\ [][/\ negotiateCalls' # negotiateCalls =>
                (putCalls = 0 /\ completeCalls = 0)
          /\ putCalls' # putCalls =>
                (negotiateCalls = 1 /\ negotiated' = "ok" /\ completeCalls = 0)
          /\ completeCalls' # completeCalls =>
                (putCalls = actualParts /\ putsReturned' = actualParts)
         ]_vars

\* A Dragdropdo upload of three parts that resolved.
C13_Witness ==
    /\ upPc = "resolved"
    /\ variant = "Dragdropdo"
    /\ actualParts = 3
    /\ completeCalls = 1

\* C14: the parts list of the completion request of Dragdropdo has exactly N
\* entries in ascending order of part number, and entry k carries part
\* number k and the token of the ETag header the PUT of part k returned
\* (the token without the double quotes the header may put around it).
C14_CompletionParts ==
    completeCalls >= 1 =>
       /\ variant = "Dragdropdo"
       /\ Len(completeBody) = actualParts
       /\ \A k \in 1..actualParts :
             /\ completeBody[k].part_number = k
             /\ completeBody[k].etag = Token(k)

\* A completion request for three parts whose ETag headers were quoted.
C14_Witness ==
    /\ upPc = "completing"
    /\ etagStyle = "quoted"
    /\ Len(completeBody) = 3

\* C15: uploadFile resolves with a file key only when the negotiate request
\* succeeded, every one of the N PUT requests succeeded and, in Dragdropdo,
\* the completion request succeeded; the key it resolves with is the one
\* of the negotiate response.
C15_ResolvesOnlyAfterAll ==
    /\ resultKey # "none" => upPc = "resolved"
    /\ upPc = "resolved" =>
          /\ negotiated = "ok"
          /\ Len(putLog) = actualParts
          /\ putsReturned = actualParts
          /\ putFailed = 0
          /\ variant = "Dragdropdo" => (completed = "ok" /\ missingEtagAt = 0)
          /\ fileKey \in FileKeys
          /\ resultKey = fileKey

\* A D3Client upload of two parts that resolved with the second key.
C15_Witness ==
    /\ upPc = "resolved"
    /\ variant = "D3Client"
    /\ actualParts = 2
    /\ resultKey = "file-key-2"

----------------------------------------------------------------------------
(* Properties of the failures of uploadFile                                *)

\* C16: when the PUT of part k fails, uploadFile rejects; part k is not sent
\* again, no PUT of a later part is issued and no completion request is sent.
C16_PutFailureStops ==
    /\ [](putFailed # 0 =>
             /\ upPc = "rejected"
             /\ upError # None
             /\ Len(putLog) = putFailed
             /\ Cardinality({j \in 1..Len(putLog) :
                                putLog[j].part = putFailed}) = 1
             /\ completeCalls = 0
             /\ resultKey = "none")
    /\ [][putFailed # 0 =>
             UNCHANGED <<upPc, upError, putLog, putCalls, completeCalls>>]_vars

\* The PUT of the second of three parts failed.
C16_Witness ==
    /\ putFailed = 2
    /\ actualParts = 3
    /\ upPc = "rejected"
    /\ putsReturned = 1

\* C17: when the PUT of part k fails, the error uploadFile rejects with is
\* an UploadError that names part k.
C17_PutFailureNamesPartAsClaimed ==
    putFailed # 0 =>
       /\ upError.kind = "UploadError"
       /\ upError.part = putFailed

\* C18: in Dragdropdo, when the response to the PUT of part k has no ETag
\* header (or an empty one), uploadFile rejects with an UploadError that
\* names part k; onProgress is not invoked for part k, no PUT of a later
\* part is issued and no completion request is sent.
C18_MissingETagStops ==
    /\ [](missingEtagAt # 0 =>
             /\ variant = "Dragdropdo"
             /\ upPc = "rejected"
             /\ upError.kind = "UploadError"
             /\ upError.msg = "Failed to get ETag"
             /\ upError.part = missingEtagAt
             /\ lastReport.currentPart < missingEtagAt
             /\ reportCount =
                   (IF onProgress = "absent" THEN 0 ELSE missingEtagAt - 1)
             /\ Len(putLog) = missingEtagAt
             /\ completeCalls = 0)
    /\ [][missingEtagAt # 0 =>
             UNCHANGED <<upPc, upError, putLog, putCalls, completeCalls,
                         reportCount, lastReport>>]_vars

\* The response to the second PUT had no ETag; onProgress ran for part 1.
C18_Witness ==
    /\ missingEtagAt = 2
    /\ upPc = "rejected"
    /\ onProgress = "returns"
    /\ reportCount = 1

\* C19: in Dragdropdo, when the completion request fails, uploadFile
\* rejects with an UploadError whose details are the error the request
\* threw; the outer catch does not wrap that UploadError again.
C19_CompletionFailureWrapped ==
    completed = "failed" =>
       /\ upPc = "rejected"
       /\ upRaisedBy = "complete"
       /\ upRaised.kind \in {"APIError", "ClientError"}
       /\ upError =
             Err("UploadError", "Failed to complete upload", 0, Cause(upRaised))

\* The completion request failed with an API error.
C19_Witness ==
    /\ completed = "failed"
    /\ upRaised.kind = "APIError"
    /\ upError.kind = "UploadError"

\* The wrapper an untyped error reaches the caller in.
Wrapped(kind, msg, e) == Err(kind, msg, 0, Cause(e))

\* C20 as stated: a typed error raised by a service call while uploadFile
\* or createOperation runs reaches the caller as that same error; an
\* untyped one is wrapped (in an UploadError for uploads), the original
\* attached.
C20_TypedPassesAsClaimed ==
    /\ upRaisedBy # "none" =>
          upError = (IF Typed(upRaised) THEN upRaised
                     ELSE Wrapped("UploadError", "Upload failed", upRaised))
    /\ (call = "createOperation" /\ opRaised # None) =>
          opError = (IF Typed(opRaised) THEN opRaised
                     ELSE Wrapped("ClientError", "Failed to create operation",
                                  opRaised))

\* C20: a typed error raised while uploadFile or createOperation runs by a
\* service call other than the completion request reaches the caller as
\* that same error; an error of the completion request, typed or not, is
\* wrapped in an UploadError; an untyped error is wrapped (in an UploadError
\* for uploads, in the base client error for createOperation), the original
\* attached.
C20_TypedPasses ==
    /\ (upRaisedBy # "none" /\ upRaisedBy # "complete") =>
          upError = (IF Typed(upRaised) THEN upRaised
                     ELSE Wrapped("UploadError", "Upload failed", upRaised))
    /\ upRaisedBy = "complete" =>
          upError = Wrapped("UploadError", "Failed to complete upload", upRaised)
    /\ (call = "createOperation" /\ opRaised # None) =>
          opError = (IF Typed(opRaised) THEN opRaised
                     ELSE Wrapped("ClientError", "Failed to create operation",
                                  opRaised))

\* The negotiate request failed with an API error, which the caller got.
C20_Witness ==
    /\ upRaisedBy = "negotiate"
    /\ upRaised.kind = "APIError"
    /\ upPc = "rejected"
    /\ upError = upRaised

----------------------------------------------------------------------------
(* Properties of the outcome of a call and of its callbacks                *)

\* C21 as stated: a public operation that rejects, rejects with an error of
\* the typed taxonomy (ValidationError, APIError, UploadError, TimeoutError,
\* the base client error), whatever the server answers and whatever the
\* callbacks of the caller do; one that resolves carries no error.
C21_TypedOutcomeAsClaimed ==
    /\ upPc = "rejected" => Typed(upError)
    /\ upPc = "resolved" => upError = None
    /\ pollPc \in {"TimedOut", "Errored"} => Typed(pollError)
    /\ pollPc = "Resolved" => pollError = None
    /\ (call \in OneRequestCalls /\ opPc = "rejected") => Typed(opError)
    /\ (call \in OneRequestCalls /\ opPc = "resolved") => opError = None

\* C22: a supplied onProgress is invoked exactly once for every part whose
\* PUT has returned (with its ETag, in Dragdropdo), in the step in which the
\* PUT returns and before the PUT of the next part is issued; the k-th
\* report has currentPart = k and totalParts = N, so an upload of N parts
\* that resolved has produced exactly N reports, the last with currentPart
\* = N.
C22_ProgressPerPart ==
    /\ [](/\ onProgress = "absent" => reportCount = 0
          /\ onProgress # "absent" =>
                reportCount =
                   putsReturned - (IF missingEtagAt # 0 THEN 1 ELSE 0)
          /\ reportCount > 0 =>
                /\ lastReport.currentPart = reportCount
                /\ lastReport.totalParts = actualParts
          /\ reportCount > 1 =>
                /\ prevReport.currentPart = reportCount - 1
                /\ prevReport.totalParts = actualParts
          /\ (upPc = "resolved" /\ onProgress # "absent") =>
                reportCount = actualParts)
    /\ [][reportCount' # reportCount =>
             /\ reportCount' = reportCount + 1
             /\ putsReturned' = putsReturned + 1
             /\ Len(putLog) = reportCount'
             /\ onProgress = "throws" => putLog' = putLog]_vars

\* A Dragdropdo upload of three parts that resolved after three reports.
C22_Witness ==
    /\ upPc = "resolved"
    /\ variant = "Dragdropdo"
    /\ onProgress = "returns"
    /\ actualParts = 3
    /\ reportCount = 3
    /\ lastReport.currentPart = 3

----------------------------------------------------------------------------
(* Properties of the convenience methods                                   *)

\* The action and the parameters documented for a convenience method.
DocumentedAction(m) ==
    CASE m = "lockPdf" -> "lock"
      [] m = "unlockPdf" -> "unlock"
      [] m = "resetPdfPassword" -> "reset_password"
      [] OTHER -> m

DocumentedParameters(m) ==
    CASE m = "convert" -> {<<"convert_to", methodArgs.convertTo>>}
      [] m = "compress" ->
            {<<"compression_value",
               IF methodArgs.compressionValue = Undefined
               THEN "recommended" ELSE methodArgs.compressionValue>>}
      [] m \in {"lockPdf", "unlockPdf"} -> {<<"password", methodArgs.password>>}
      [] m = "resetPdfPassword" ->
            {<<"old_password", methodArgs.oldPassword>>,
             <<"new_password", methodArgs.newPassword>>}
      [] OTHER -> {}

\* C24: a convenience method issues at most one request, the
\* create-operation request createOperation issues for its action: the
\* action of the method, the fileKeys and notes it was given and the
\* documented parameters (convert_to; compression_value, 'recommended' when
\* none is given; password; old_password and new_password); it issues none
\* exactly when createOperation rejects the file keys, and it resolves with
\* the mainTaskId of the response.
C24_ConvenienceAsCreate ==
    method \in ConvenienceMethods =>
       /\ opRequests =
             (IF opPc = "start" \/ ~fileKeys.given \/ fileKeys.length = 0
              THEN 0 ELSE 1)
       /\ opRequests = 1 =>
             /\ opBody.action = DocumentedAction(method)
             /\ opBody.file_keys = fileKeys
             /\ opBody.notes = methodArgs.notes
             /\ opBody.parameters.fields = DocumentedParameters(method)
             /\ opBody.parameters.given =
                   (method \notin {"merge", "zip", "share"})
       /\ opPc = "resolved" =>
             /\ opResponse \in TaskIds
             /\ opResult = opResponse

\* compress without a compression value, resolved with the second task id.
C24_Witness ==
    /\ method = "compress"
    /\ methodArgs.compressionValue = Undefined
    /\ opPc = "resolved"
    /\ opBody.parameters.fields = {<<"compression_value", "recommended">>}
    /\ opResult = "task-2"

----------------------------------------------------------------------------
(* Further properties of uploadFile and pollStatus                         *)

\* C25: for every file size and every requested part count (an integer,
\* negative, zero or above the limit included) the parts value of the
\* negotiate request is between 1 and 100 inclusive, and an upload that
\* resolved has issued that many PUT requests.
C25_PartsInRange ==
    /\ negotiateCalls >= 1 =>
          /\ actualParts \in Int
          /\ actualParts >= 1
          /\ actualParts <= 100
    /\ upPc = "resolved" =>
          /\ putCalls = actualParts
          /\ putCalls >= 1
          /\ putCalls <= 100

\* An upload asked to use 101 parts resolved after 100 PUT requests.
C25_Witness ==
    /\ parts = [given |-> TRUE, value |-> 101]
    /\ upPc = "resolved"
    /\ actualParts = 100
    /\ putCalls = 100

\* C26: within one pollStatus call the status requests do not overlap: one
\* request at most is in flight, and a further request is issued only when
\* the request before it has returned a non-terminal status, a supplied
\* onUpdate has been invoked with that status, and at least interval has
\* passed since then.
C26_SequentialPolls ==
    /\ [](/\ statusRequests <= nonTerminal + 1
          /\ pollPc = "fetching" => statusRequests = nonTerminal + 1)
    /\ [][(statusRequests' # statusRequests /\ statusRequests >= 1) =>
             /\ statusRequests' = statusRequests + 1
             /\ pollPc = "waiting"
             /\ lastFetched.serial = statusRequests
             /\ ~IsTerminal(lastFetched)
             /\ onUpdate # "absent" =>
                   (updates = statusRequests /\ lastUpdateArg = lastFetched)
             /\ now' >= now + interval]_vars

\* The second request of a call with an interval of 2 and an onUpdate.
C26_Witness ==
    /\ pollPc = "fetching"
    /\ statusRequests = 2
    /\ interval = 2
    /\ updates = 1
    /\ lastUpdateArg.operationStatus = "running"

\* C27: every pollStatus call settles in the end (Resolved, TimedOut or
\* Errored) when every status request returns or fails and the clock
\* advances, for every interval from 0 on and every timeout, also when the
\* server never reports a terminal status.
C27_PollSettles == <>(pollPc \in Settled)

\* A call with an interval of 0 that timed out on non-terminal statuses only.
C27_Witness ==
    /\ pollPc = "TimedOut"
    /\ interval = 0
    /\ nonTerminal >= 3
    /\ fetches = nonTerminal

C29_OverallStatusDecides ==
    [][lastFetched' # lastFetched =>
         /\ pollPc' =
               (IF onUpdate = "throws" THEN "Errored"
                ELSE IF lastFetched'.operationStatus \in {"completed", "failed"}
                THEN "Resolved"
                ELSE "waiting")
         /\ statusRequests' = statusRequests
         /\ fetches' = fetches]_vars

\* Resolved with an overall status of completed and a file still queued.
C29_Witness ==
    /\ pollPc = "Resolved"
    /\ pollResult.operationStatus = "completed"
    /\ pollResult.files = "some-queued"
    /\ nonTerminal >= 1

\* C30: in Dragdropdo a negotiate response without an upload id makes
\* uploadFile reject with an UploadError before any PUT is issued; the
\* number of locations is checked first, so the error is the one about the
\* upload id exactly when that number is the requested one.
C30_MissingUploadId ==
    uploadIdSeen = "missing" =>
       /\ variant = "Dragdropdo"
       /\ upPc = "rejected"
       /\ upError.kind = "UploadError"
       /\ upError.msg = (IF presignedUrls = actualParts
                         THEN "Upload ID not received" ELSE "Mismatch")
       /\ putCalls = 0
       /\ putLog = <<>>
       /\ completeCalls = 0

\* Two locations for two parts, and no upload id.
C30_Witness ==
    /\ uploadIdSeen = "missing"
    /\ actualParts = 2
    /\ presignedUrls = 2
    /\ upPc = "rejected"
    /\ upError.msg = "Upload ID not received"

C32_SameStatusAsClaimed ==
    (call = "getStatus" /\ variant = "Dragdropdo" /\ opPc = "resolved") =>
       \A top \in Namings, entry \in Namings :
          statusResult = GetStatusReturn(WireStatus(statusData, top, entry))

\* C33 as stated: in every onProgress report of every upload, of a source of
\* any size and in any number of parts from 1 to 100, bytesUploaded is at
\* least 0 and at most totalBytes and percentage is an integer from 0 to 100.
C33_ProgressBoundsAsClaimed ==
    reportCount >= 1 =>
       /\ lastReport.totalParts \in 1..MaxPartCount
       /\ lastReport.bytesUploaded >= 0
       /\ lastReport.bytesUploaded <= lastReport.totalBytes
       /\ ~lastReport.percentage.nan
       /\ lastReport.percentage.value \in 0..100

----------------------------------------------------------------------------
(* Properties of calls running interleaved on one client                   *)

\* C34: calls of pollStatus and uploadFile running interleaved on one
\* client do not interfere.  A step of one call leaves the locals of the
\* others as they were; a call times out exactly when a check of its own
\* finds the time since its own start above its own timeout, and issues a
\* request only within it; every status request asks for the call's own
\* tracking id, and a call resolves with a terminal status of that id; an
\* upload resolves with the file key of its own negotiate response after
\* its own N PUTs; and no step changes the fields of the client.
C34_CallsDoNotInterfere ==
    [][/\ client' = client
       /\ \A c \in CallIds :
             LET r == calls[c]
                 q == calls'[c]
             IN  /\ q # r => \A d \in CallIds \ {c} : calls'[d] = calls[d]
                 /\ (q.pc = "TimedOut" /\ r.pc # "TimedOut") =>
                       /\ clock - q.startTime > q.timeout
                       /\ q.requests = r.requests
                 /\ q.requests > r.requests =>
                       /\ clock - q.startTime <= q.timeout
                       /\ q.requested = q.taskId
                       /\ q.pc = "fetching"
                 /\ (r.pc \in {"idle", "waiting"} /\ q # r
                                                  /\ q.kind = "pollStatus") =>
                       q.pc = (IF clock - q.startTime > q.timeout
                               THEN "TimedOut" ELSE "fetching")
                 /\ (q.pc = "Resolved" /\ r.pc # "Resolved") =>
                       /\ r.pc = "fetching"
                       /\ q.result.taskId = q.taskId
                       /\ q.result.operationStatus \in {"completed", "failed"}
                 /\ q.kind = "pollStatus" =>
                       q.requests <= (q.timeout \div q.interval) + 1
                 /\ q.run.pc = "resolved" =>
                       /\ q.run.result.fileKey = q.key
                       /\ Len(q.run.requests) = 1 + q.run.n]_vars

\* Two polls started at different times for different tasks: the first has
\* timed out, the second has resolved after it.
C34_Witness ==
    /\ calls[1].kind = "pollStatus"
    /\ calls[2].kind = "pollStatus"
    /\ calls[1].taskId # calls[2].taskId
    /\ calls[1].startTime < calls[2].startTime
    /\ calls[1].pc = "TimedOut"
    /\ calls[1].requests >= 1
    /\ calls[2].pc = "Resolved"
    /\ calls[2].requests >= 2
    /\ clock - calls[1].startTime > calls[1].timeout
    /\ clock - calls[2].startTime <= calls[2].timeout

----------------------------------------------------------------------------
(* Further properties of the calls                                         *)

\* C35: the bodies of the part PUTs of an upload, in part order, are
\* consecutive ranges of the source: the first starts at byte 0, each next
\* one starts where the one before ended (no byte twice, none skipped), and
\* the body of part N ends at byte S, so that the N bodies together are the
\* S bytes of the source; also when N does not divide S and when N > S.
C35_ChunksReproduceSource ==
    /\ \A j \in 1..Len(putLog) :
          /\ putLog[j].chunk.from = (IF j = 1 THEN 0 ELSE putLog[j - 1].chunk.upto)
          /\ putLog[j].chunk.from <= putLog[j].chunk.upto
          /\ putLog[j].chunk.upto <= fileSize
    /\ (putLog # <<>> /\ Len(putLog) = actualParts) =>
          putLog[actualParts].chunk.upto = fileSize

\* Seven bytes sent in five parts: the fifth body is empty.
C35_Witness ==
    /\ fileSize = MaxSmallSize
    /\ actualParts = 5
    /\ Len(putLog) = 5
    /\ putLog[4].chunk = [from |-> 6, upto |-> 7]
    /\ putLog[5].chunk = [from |-> 7, upto |-> 7]
    /\ upPc \in {"resolved", "completing"}

\* C36: for an interval above 0 and a timeout of at least 0, one pollStatus
\* call makes at most floor(timeout / interval) + 1 status requests,
\* whatever the answers are and however long they take; with a timeout
\* below 0 it makes none.
C36_RequestBound ==
    /\ (interval > 0 /\ timeout >= 0) =>
          /\ fetches <= (timeout \div interval) + 1
          /\ statusRequests <= (timeout \div interval) + 1
    /\ timeout < 0 =>
          /\ fetches = 0
          /\ statusRequests = 0
          /\ pollPc \in {"start", "TimedOut"}

\* The bound is reached: three requests for a timeout of five ticks and an
\* interval of two, the fourth check finding the time over.
C36_Witness ==
    /\ interval = 2
    /\ timeout = 5
    /\ statusRequests = 3
    /\ pollPc = "TimedOut"

\* The promise of pollStatus has been resolved or rejected.
PromiseSettled == pollResult # NoStatus \/ pollError # None

\* C37: once the promise of a pollStatus call is settled, no status request
\* of the call is in flight and no timer of it is set, and the call makes
\* no further status request, sets no further timer and invokes onUpdate
\* no more.
C37_QuietAfterSettling ==
    [][/\ PromiseSettled' => pollPc' \in Settled
       /\ PromiseSettled =>
             /\ pollPc' = pollPc
             /\ fetches' = fetches
             /\ statusRequests' = statusRequests
             /\ updates' = updates
             /\ pollResult' = pollResult
             /\ pollError' = pollError]_vars

\* Resolved after two requests, a timer and two onUpdate invocations.
C37_Witness ==
    /\ PromiseSettled
    /\ pollPc = "Resolved"
    /\ statusRequests = 2
    /\ updates = 2
    /\ onUpdate = "returns"

\* C39: a fetched status whose overall status is neither completed nor
\* failed (queued, running, a value the client does not know, or no value)
\* is not terminal: pollStatus does not resolve with it, and after it the
\* call sets the timer for the next request unless onUpdate threw.
C39_OtherStatusesKeepPolling ==
    /\ [](pollPc = "Resolved" =>
            pollResult.operationStatus \in {"completed", "failed"})
    /\ [][(lastFetched' # lastFetched
             /\ lastFetched'.operationStatus \notin {"completed", "failed"}) =>
             /\ pollPc' = (IF onUpdate = "throws" THEN "Errored" ELSE "waiting")
             /\ pollResult' = NoStatus
             /\ nonTerminal' = nonTerminal + 1]_vars

\* The third request of a call, issued after a status with no value for
\* the overall status.
C39_Witness ==
    /\ pollPc = "fetching"
    /\ statusRequests = 3
    /\ nonTerminal = 2
    /\ lastFetched.operationStatus = Undefined
    /\ onUpdate = "returns"
    /\ lastUpdateArg = lastFetched

\* C38: when onUpdate throws, pollStatus rejects with the very error thrown
\* and polls no more: the first status fetched is the last, whether it was
\* terminal or not, for the callback runs before the terminal check.
C38_ThrowingCallbackRejects ==
    (onUpdate = "throws" /\ lastFetched # NoStatus) =>
       /\ pollPc = "Errored"
       /\ pollError = CallbackError
       /\ pollResult = NoStatus
       /\ lastUpdateArg = lastFetched
       /\ updates = 1
       /\ fetches = 1
       /\ statusRequests = 1

\* onUpdate threw on a completed status.
C38_Witness ==
    /\ onUpdate = "throws"
    /\ lastUpdateArg.operationStatus = "completed"
    /\ pollPc = "Errored"
    /\ pollError.kind = "Error"

\* C40: the header with the API key (X-API-Key in D3Client, Authorization
\* in Dragdropdo) is carried by the requests to the base URL, all of them
\* (negotiate, complete, supported-operation, do, status), and by no other:
\* the PUT of a part to its presigned location carries Content-Type alone.
C40_CredentialOnlyToBaseURL ==
    \A r \in wire :
       /\ Credential \in r.headers <=> r.to = "baseURL"
       /\ r.path = "part" <=> r.to = "location"
       /\ r.to = "location" => r.headers = {"Content-Type"}
       /\ r.to \in {"baseURL", "location"}

\* A completed upload of Dragdropdo: the negotiate and the completion
\* request went to the base URL, the parts to their locations.
C40_Witness ==
    /\ variant = "Dragdropdo"
    /\ upPc = "resolved"
    /\ putCalls = 2
    /\ {r.path : r \in wire} = {"initiate-upload", "part", "complete-upload"}
    /\ \E r \in wire : r.to = "location" /\ "Authorization" \notin r.headers

====
